---- MODULE Spec2Model ----
(***************************************************************************)
(* Verification model of the H3 grid spatial-autocorrelation engine of     *)
(* gaode-map: the ArcGIS host bridge runner and its analyze cache          *)
(* (host_bridge/runner.py), the bridge client (grid_h3/arcgis_bridge.py)   *)
(* and the local statistics pipeline (grid_h3/analysis.py).                *)
(***************************************************************************)
EXTENDS Integers, Sequences, FiniteSets, TLC

(***************************************************************************)
(* Bounds of the model.                                                    *)
(***************************************************************************)
NumOutputs == 2
MaxTime == 3
NumCells == 4
MaxValue == 4
MaxPois == 2
MaxP == 2

(***************************************************************************)
(* Program constants (ArcGISRunner.__init__, as configured by the          *)
(* environment: TTL in clock ticks, capacity at its floor of 4).           *)
(***************************************************************************)
analyze_cache_ttl_sec == 1
analyze_cache_max_entries == 4

VARIABLES
    analyze_cache,   \* ArcGISRunner._analyze_cache, a dict in insertion order
    clock,           \* time.time()
    worker,          \* the threadpool threads serving POST /v1/arcgis/h3/analyze
    response,        \* what the last finished ArcGISRunner.run returned or raised
    client,          \* the caller of run_arcgis_h3_analysis and what it observed
    np_random_state, \* the process-global generator behind np.random
    seed_kw,         \* whether the installed esda takes a seed keyword
    thread,          \* the threads that run analyze_h3_grid (asyncio.to_thread)
    http,            \* what the last finished analyze_h3_grid call gave its caller
    call             \* a call of one function of grid_h3/analysis.py

cacheVars == <<analyze_cache, clock, worker, response>>
hostVars == <<analyze_cache, clock, worker, response, client>>
metricsVars == <<np_random_state, seed_kw, thread, http>>
analysisVars == <<np_random_state, seed_kw, thread, http, call>>
vars == <<analyze_cache, clock, worker, response, client,
          np_random_state, seed_kw, thread, http, call>>

Workers == {"w1", "w2"}
RowSets == {0, 1, 2}              \* the row lists of the requests; 0 is the empty list
KnnValues == {6}
PythonPaths == {"arcpy", "not_exists"}
Outputs == 1..NumOutputs
SubprocessOutcomes_without_timeout == {"ok", "nonzero_exit", "output_missing", "not_ok"}
SubprocessOutcomes == {"ok", "timeout", "nonzero_exit", "output_missing", "not_ok"}

NoKey == <<>>
IdleWorker == [pc |-> "idle", cache_key |-> NoKey, refresh |-> FALSE]
NoResponse ==
    [worker |-> "", cache_key |-> NoKey, kind |-> "none", cells |-> 0,
     global_moran |-> 0, cache_hit |-> FALSE, proc |-> "none", refresh |-> FALSE]

(***************************************************************************)
(* ArcGISRunner._resolve_python_path: the path must exist.                 *)
(***************************************************************************)
ExistingPythonPaths == {"arcpy", "arcpy_pro"}

_resolve_python_path(path) == path \in ExistingPythonPaths

\* the script of the runner (self.script_path) and the st_mtime of its file, in
\* half seconds
ScriptPaths == {"arcgis_h3_pipeline.py", "arcgis_h3_pipeline_v2.py"}
InstalledScript == "arcgis_h3_pipeline.py"
InstalledMtime == 0

(***************************************************************************)
(* ArcGISRunner._build_analyze_cache_key: sha256 of the canonical JSON of  *)
(* rows, knn_neighbors, python_path, script_path and script_mtime; the     *)
(* digest is modelled by the tuple it is computed from.  script_mtime is    *)
(* int(st_mtime), the whole seconds of the modification time; st_mtime is   *)
(* given in half seconds.                                                  *)
(***************************************************************************)
_build_analyze_cache_key(rows, knn_neighbors, python_path, script_path, st_mtime) ==
    <<rows, knn_neighbors, python_path, script_path, st_mtime \div 2>>

(***************************************************************************)
(* The dict: a sequence of entries in insertion order, keys unique.        *)
(***************************************************************************)
CacheKeys(c) == {c[i].key : i \in 1..Len(c)}

CacheGet(c, key) == c[CHOOSE i \in 1..Len(c) : c[i].key = key]

CacheSet(c, key, entry) ==
    IF key \in CacheKeys(c)
    THEN [i \in 1..Len(c) |-> IF c[i].key = key THEN entry ELSE c[i]]
    ELSE Append(c, entry)

(***************************************************************************)
(* ArcGISRunner._gc_analyze_cache                                          *)
(***************************************************************************)
Expired_late(entry, now_ts) ==
    entry.created_ts < now_ts - analyze_cache_ttl_sec - 1

Expired(entry, now_ts) ==
    entry.created_ts < now_ts - analyze_cache_ttl_sec

DropExpired(c, now_ts) ==
    IF analyze_cache_ttl_sec > 0
    THEN SelectSeq(c, LAMBDA e : ~Expired(e, now_ts))
    ELSE c

SortedRank_newest_first(c, i) ==
    Cardinality({j \in 1..Len(c) :
        \/ c[j].created_ts > c[i].created_ts
        \/ c[j].created_ts = c[i].created_ts /\ j > i})

\* position of entry i in sorted(items, key=created_ts), a stable sort
SortedRank(c, i) ==
    Cardinality({j \in 1..Len(c) :
        \/ c[j].created_ts < c[i].created_ts
        \/ c[j].created_ts = c[i].created_ts /\ j < i})

CapacityDropCount_one_less(c) ==
    IF Len(c) - analyze_cache_max_entries - 1 > 0
    THEN Len(c) - analyze_cache_max_entries - 1
    ELSE 0

CapacityDropCount(c) ==
    IF Len(c) - analyze_cache_max_entries > 0
    THEN Len(c) - analyze_cache_max_entries
    ELSE 0

CapacityDropped(c) ==
    {c[i].key : i \in {j \in 1..Len(c) : SortedRank(c, j) < CapacityDropCount(c)}}

DropOverCapacity(c) ==
    IF Len(c) <= analyze_cache_max_entries
    THEN c
    ELSE SelectSeq(c, LAMBDA e : e.key \notin CapacityDropped(c))

_gc_analyze_cache(c, now_ts) ==
    IF Len(c) = 0 THEN c ELSE DropOverCapacity(DropExpired(c, now_ts))

_get_cached_analyze_any(c, cache_key) ==
    IF Len(c) > 0
    THEN [kind |-> "ok", cells |-> c[1].cells, global_moran |-> c[1].global_moran,
          cache_hit |-> TRUE]
    ELSE [kind |-> "none", cells |-> 0, global_moran |-> 0, cache_hit |-> FALSE]

(***************************************************************************)
(* ArcGISRunner._get_cached_analyze, after its collection: the entry of    *)
(* the key as a detached copy tagged cache_hit, or none.                   *)
(***************************************************************************)
_get_cached_analyze(c, cache_key) ==
    IF cache_key \in CacheKeys(c)
    THEN [kind |-> "ok", cells |-> CacheGet(c, cache_key).cells,
          global_moran |-> CacheGet(c, cache_key).global_moran, cache_hit |-> TRUE]
    ELSE [kind |-> "none", cells |-> 0, global_moran |-> 0, cache_hit |-> FALSE]

(***************************************************************************)
(* ArcGISRunner._put_cached_analyze                                        *)
(***************************************************************************)
_put_cached_analyze(c, key, payload, now_ts) ==
    IF analyze_cache_ttl_sec <= 0
    THEN c
    ELSE _gc_analyze_cache(
            CacheSet(c, key, [key |-> key, created_ts |-> now_ts,
                              cells |-> payload.cells,
                              global_moran |-> payload.global_moran]),
            now_ts)

\* the dict holds an entry of the key that is older than the TTL at now_ts
StaleEntry(c, cache_key, now_ts) ==
    \E i \in 1..Len(c) :
        c[i].key = cache_key /\ now_ts - c[i].created_ts > analyze_cache_ttl_sec

\* the dict holds an entry of the key that is no older than the TTL at now_ts
LiveEntry(c, cache_key, now_ts) ==
    \E i \in 1..Len(c) :
        c[i].key = cache_key /\ now_ts - c[i].created_ts <= analyze_cache_ttl_sec

(***************************************************************************)
(* ArcGISRunner.run, from its entry to the cache lookup (lines 343-388):   *)
(* an empty row list returns at once, an unresolvable python path raises,  *)
(* a cache hit returns the stored result, a miss goes on to the            *)
(* subprocess.                                                             *)
(***************************************************************************)
RunLookupAt(w, req, script_path, st_mtime) ==
    /\ worker[w].pc = "idle"
    /\ IF req.rows = 0
       THEN /\ response' = [NoResponse EXCEPT !.worker = w, !.kind = "no_rows"]
            /\ UNCHANGED <<analyze_cache, worker>>
       ELSE IF ~_resolve_python_path(req.arcgis_python_path)
       THEN /\ response' = [NoResponse EXCEPT !.worker = w, !.kind = "ArcGISRunnerError"]
            /\ UNCHANGED <<analyze_cache, worker>>
       ELSE LET cache_key == _build_analyze_cache_key(
                                req.rows, req.knn_neighbors, req.arcgis_python_path,
                                script_path, st_mtime)
                collected == _gc_analyze_cache(analyze_cache, clock)
                cached == _get_cached_analyze(collected, cache_key)
            IN  /\ analyze_cache' = collected
                /\ IF cached.kind # "none"
                   THEN /\ response' =
                            [worker |-> w, cache_key |-> cache_key, kind |-> "ok",
                             cells |-> cached.cells, global_moran |-> cached.global_moran,
                             cache_hit |-> TRUE, proc |-> "none", refresh |-> FALSE]
                        /\ UNCHANGED worker
                   ELSE /\ worker' = [worker EXCEPT ![w] =
                            [pc |-> "subprocess", cache_key |-> cache_key,
                             refresh |-> StaleEntry(analyze_cache, cache_key, clock)]]
                        /\ UNCHANGED response
    /\ UNCHANGED clock

\* run while the script file is left alone
RunLookup(w, req) == RunLookupAt(w, req, InstalledScript, InstalledMtime)

(***************************************************************************)
(* ArcGISRunner.run after the miss (lines 390-445): the subprocess ends    *)
(* (_run_subprocess), its output file is read, a good result is stored     *)
(* with the time of the store and returned; every failure raises.          *)
(***************************************************************************)
SubprocessResult_unchecked_output(outcome, out) ==
    IF outcome = "timeout"
    THEN [kind |-> "ArcGISRunnerTimeout", cells |-> 0, global_moran |-> 0]
    ELSE IF outcome = "nonzero_exit"
    THEN [kind |-> "ArcGISRunnerError", cells |-> 0, global_moran |-> 0]
    ELSE IF outcome \in {"output_missing", "not_ok"}
    THEN [kind |-> "ok", cells |-> 0, global_moran |-> 0]
    ELSE [kind |-> "ok", cells |-> out, global_moran |-> out]

SubprocessResult(outcome, out) ==
    IF outcome = "timeout"
    THEN [kind |-> "ArcGISRunnerTimeout", cells |-> 0, global_moran |-> 0]
    ELSE IF outcome = "nonzero_exit"
    THEN [kind |-> "ArcGISRunnerError", cells |-> 0, global_moran |-> 0]
    ELSE IF outcome = "output_missing"
    THEN [kind |-> "ArcGISRunnerError", cells |-> 0, global_moran |-> 0]
    ELSE IF outcome = "not_ok"
    THEN [kind |-> "ArcGISRunnerError", cells |-> 0, global_moran |-> 0]
    ELSE [kind |-> "ok", cells |-> out, global_moran |-> out]

RunSubprocess(w, outcome, out) ==
    /\ worker[w].pc = "subprocess"
    /\ LET result == SubprocessResult(outcome, out)
       IN  /\ response' =
                [worker |-> w, cache_key |-> worker[w].cache_key, kind |-> result.kind,
                 cells |-> result.cells, global_moran |-> result.global_moran,
                 cache_hit |-> FALSE, proc |-> outcome, refresh |-> worker[w].refresh]
           /\ analyze_cache' =
                IF result.kind = "ok"
                THEN _put_cached_analyze(analyze_cache, worker[w].cache_key, result, clock)
                ELSE analyze_cache
    /\ worker' = [worker EXCEPT ![w] = IdleWorker]
    /\ UNCHANGED clock

Tick ==
    /\ clock < MaxTime
    /\ clock' = clock + 1
    /\ UNCHANGED <<analyze_cache, worker, response>>

AnalyzeRequests ==
    [rows : RowSets, knn_neighbors : KnnValues, arcgis_python_path : PythonPaths]

(***************************************************************************)
(* The bridge client, run_arcgis_h3_analysis (grid_h3/arcgis_bridge.py),   *)
(* and the host handler analyze_h3 (host_bridge/main.py) that answers it.  *)
(***************************************************************************)
\* a feature list: 0 is the empty list, -1 a list whose features carry no ring,
\* n > 0 a list that builds the row list n
Features == {-1, 0, 1}
HostWorker == "w1"
Tokens == {"", "secret"}
HostTokens == {"", "secret", "other"}
ForeignBodies == {"ok_true", "ok_false", "not_a_dict"}
\* bodies with ok = true that are not in the agreed shape: an object without cells
\* and global_moran, an object whose cells cannot be read as a list of objects
MalformedBodies == {"ok_true_no_results", "ok_true_cells_not_a_list"}
HttpStatuses == {200, 401, 500, 504}

NoRequest == [rows |-> 0, knn_neighbors |-> 6, arcgis_python_path |-> ""]
NoResult == [kind |-> "none", cells |-> 0, global_moran |-> 0]
BridgeError == [kind |-> "ArcGISBridgeError", cells |-> 0, global_moran |-> 0]
IdleClient ==
    [pc |-> "idle", enabled |-> TRUE, token |-> "secret", req |-> NoRequest, worker |-> "",
     transport |-> "none", status |-> 0, body |-> "none", result |-> NoResult]

\* _build_rows: the features that carry an h3_id and a ring of >= 3 points
_build_rows(features) ==
    IF features < 0 THEN 0 ELSE features

\* run_arcgis_h3_analysis, lines 338-350: the checks made before any request
ClientPrecheck(enabled, token, features) ==
    /\ enabled
    /\ features # 0
    /\ token # ""
    /\ _build_rows(features) # 0

BridgeResult_any_status(status, body, cells, global_moran) ==
    IF body # "ok_true"
    THEN BridgeError
    ELSE [kind |-> "ok", cells |-> cells, global_moran |-> global_moran]

\* run_arcgis_h3_analysis, lines 380-427: the response becomes a result or an error
BridgeResult(status, body, cells, global_moran) ==
    IF status # 200
    THEN BridgeError
    ELSE IF body = "ok_true"
    THEN [kind |-> "ok", cells |-> cells, global_moran |-> global_moran]
    ELSE IF body = "ok_true_no_results"
    THEN [kind |-> "ok", cells |-> 0, global_moran |-> 0]
    ELSE IF body = "ok_true_cells_not_a_list"
    THEN [kind |-> "AttributeError", cells |-> 0, global_moran |-> 0]
    ELSE BridgeError

\* analyze_h3, lines 139-156: what the handler answers for what run() did
HostReply(r) ==
    IF r.kind = "ArcGISRunnerTimeout"
    THEN [status |-> 504, body |-> "detail", cells |-> 0, global_moran |-> 0]
    ELSE IF r.kind = "ArcGISRunnerError"
    THEN [status |-> 500, body |-> "detail", cells |-> 0, global_moran |-> 0]
    ELSE [status |-> 200, body |-> "ok_true", cells |-> r.cells,
          global_moran |-> r.global_moran]

Received(c, reply) ==
    [c EXCEPT !.pc = "idle", !.transport = "delivered", !.status = reply.status,
              !.body = reply.body,
              !.result = BridgeResult(reply.status, reply.body, reply.cells,
                                      reply.global_moran)]

ClientCall(enabled, token, features, python_path) ==
    /\ client.pc = "idle"
    /\ client' =
        IF ClientPrecheck(enabled, token, features)
        THEN [IdleClient EXCEPT !.pc = "posted", !.enabled = enabled, !.token = token,
                !.req = [rows |-> _build_rows(features), knn_neighbors |-> 6,
                         arcgis_python_path |-> python_path]]
        ELSE [IdleClient EXCEPT !.enabled = enabled, !.token = token,
                !.result = BridgeError]
    /\ UNCHANGED cacheVars

\* analyze_h3, lines 130-134: the token check
HostRejects(host_token) ==
    /\ client.pc = "posted"
    /\ host_token = "" \/ host_token # client.token
    /\ client' = Received(client,
            [status |-> IF host_token = "" THEN 500 ELSE 401, body |-> "detail",
             cells |-> 0, global_moran |-> 0])
    /\ UNCHANGED cacheVars

\* analyze_h3, line 140: runner.run as far as the lookup
HostRuns(w) ==
    /\ client.pc = "posted"
    /\ RunLookup(w, client.req)
    /\ client' =
        IF worker'[w].pc = "idle"
        THEN Received(client, HostReply(response'))
        ELSE [client EXCEPT !.pc = "waiting", !.worker = w]

\* analyze_h3, lines 140-156: runner.run returns or raises after the subprocess
HostFinishes(w, outcome, out) ==
    /\ RunSubprocess(w, outcome, out)
    /\ client' =
        IF client.pc = "waiting" /\ client.worker = w
        THEN Received(client, HostReply(response'))
        ELSE client

\* httpx.TimeoutException and httpx.RequestError, lines 372-378
TransportFails(kind) ==
    /\ \/ client.pc = "posted"
       \/ client.pc = "waiting" /\ kind = "timeout"
    /\ client' = [client EXCEPT !.pc = "idle", !.transport = kind,
                                !.result = BridgeError]
    /\ UNCHANGED cacheVars

\* an answer that does not come from analyze_h3 (a proxy, another service)
ForeignReply(status, body, out) ==
    /\ client.pc = "posted"
    /\ client' = Received(client,
            [status |-> status, body |-> body, cells |-> out, global_moran |-> out])
    /\ UNCHANGED cacheVars

(***************************************************************************)
(* grid_h3/analysis.py. Cells are the hexagons of a two-row strip, numbered *)
(* in zigzag, so that h3.grid_disk(i, k) holds the cells j with            *)
(* |i - j| <= 2k. A density is a whole number of units; a p-value and      *)
(* alpha are whole numbers of one common unit; None is the missing value.  *)
(***************************************************************************)
None == -1

CellIds == 1..NumCells
Values == 0..MaxValue
PValues == {None} \cup (1..MaxP)
Alphas == 1..MaxP
PermutationCounts == {0, 4999}
\* the quadrant of Moran_Local, 0 for an entry that is missing or no number
Quadrants == 0..4
\* the z-score of G_Local: beyond or within half a unit of the sixth decimal, or
\* not finite
ZScores == {"negative", "small_negative", "zero", "small_positive", "positive", "nan"}
NeighborRings == {1}

Abs(x) == IF x < 0 THEN 0 - x ELSE x

RECURSIVE SumOver(_, _)
SumOver(f, S) ==
    IF S = {}
    THEN 0
    ELSE LET x == CHOOSE y \in S : TRUE IN f[x] + SumOver(f, S \ {x})

RECURSIVE ProductOver(_, _)
ProductOver(f, S) ==
    IF S = {}
    THEN 1
    ELSE LET x == CHOOSE y \in S : TRUE IN f[x] * ProductOver(f, S \ {x})

\* list(stats_by_cell.keys()): the cells of the working set in their order
RECURSIVE cell_ids(_)
cell_ids(S) ==
    IF S = {}
    THEN <<>>
    ELSE LET first == CHOOSE x \in S : \A y \in S : x <= y
         IN <<first>> \o cell_ids(S \ {first})

\* the position of a cell in id_order
IndexOf(order, cid) == CHOOSE k \in 1..Len(order) : order[k] = cid

\* _neighbors, lines 98-106: h3.grid_disk, the cell itself included; [] when
\* h3 raises, as for an id that is no cell
_neighbors(cell_id, ring_size) ==
    IF cell_id \notin CellIds
    THEN {}
    ELSE {nid \in CellIds : Abs(nid - cell_id) <= 2 * ring_size}

(***************************************************************************)
(* _safe_round(value, 6) of the rational numer / denom (denom > 0): round() *)
(* to six decimals, ties to even, computed by long division. The value is  *)
(* held in millionths.                                                     *)
(***************************************************************************)
RECURSIVE Decimals(_, _, _, _)
Decimals(q, r, denom, ndigits) ==
    IF ndigits = 0
    THEN [q |-> q, r |-> r]
    ELSE Decimals(10 * q + ((10 * r) \div denom), (10 * r) % denom, denom, ndigits - 1)

Undefined == [defined |-> FALSE, micro |-> 0]

_safe_round(numer, denom) ==
    LET t == Decimals(Abs(numer) \div denom, Abs(numer) % denom, denom, 6)
        up == \/ 2 * t.r > denom
              \/ 2 * t.r = denom /\ t.q % 2 = 1
        m == IF up THEN t.q + 1 ELSE t.q
    IN [defined |-> TRUE, micro |-> IF numer < 0 THEN 0 - m ELSE m]

(***************************************************************************)
(* aggregate_pois_to_h3, lines 120-166. A poi carries whether its location *)
(* is a pair of numbers and the cell _latlng_to_cell gives for it (0 when  *)
(* it gives none).                                                         *)
(***************************************************************************)
Pois ==
    {[location |-> "bad", cell |-> 0]}
        \cup {[location |-> "ok", cell |-> c] : c \in 0..NumCells}

PoiLists == UNION {[1..k -> Pois] : k \in 0..MaxPois}

GridSets == SUBSET CellIds

RECURSIVE aggregate_all_located(_, _)
aggregate_all_located(grid_ids, pois) ==
    IF pois = <<>>
    THEN [stats_by_cell |-> [cid \in grid_ids |-> 0], assigned_poi_count |-> 0]
    ELSE LET before == aggregate_all_located(grid_ids, SubSeq(pois, 1, Len(pois) - 1))
             poi == pois[Len(pois)]
         IN IF poi.location # "ok"
            THEN before
            ELSE [stats_by_cell |->
                    IF poi.cell \in grid_ids
                    THEN [before.stats_by_cell EXCEPT ![poi.cell] = @ + 1]
                    ELSE before.stats_by_cell,
                  assigned_poi_count |-> before.assigned_poi_count + 1]

RECURSIVE aggregate_pois_to_h3(_, _)
aggregate_pois_to_h3(grid_ids, pois) ==
    IF pois = <<>>
    THEN [stats_by_cell |-> [cid \in grid_ids |-> 0], assigned_poi_count |-> 0]
    ELSE LET before == aggregate_pois_to_h3(grid_ids, SubSeq(pois, 1, Len(pois) - 1))
             poi == pois[Len(pois)]
         IN IF poi.location # "ok"
            THEN before
            ELSE IF poi.cell = 0 \/ poi.cell \notin grid_ids
            THEN before
            ELSE [stats_by_cell |-> [before.stats_by_cell EXCEPT ![poi.cell] = @ + 1],
                  assigned_poi_count |-> before.assigned_poi_count + 1]

(***************************************************************************)
(* compute_cell_metrics, lines 169-179: density = poi_count / area. The    *)
(* area is h3.cell_area of the cell, which differs between cells, or       *)
(* h3.hex_area of the resolution, which does not; an area is 1 or 2 and a  *)
(* density is held in halves.                                              *)
(***************************************************************************)
H3Builds == {"cell_area", "hex_area"}

_cell_area_km2(cell_id, h3_build) ==
    IF h3_build = "cell_area" /\ cell_id % 2 = 0 THEN 2 ELSE 1

compute_cell_metrics(stats_by_cell, h3_build) ==
    [cid \in DOMAIN stats_by_cell |->
        (2 * stats_by_cell[cid]) \div _cell_area_km2(cid, h3_build)]

(***************************************************************************)
(* The deviations of the values from their mean, lines 234-236, each       *)
(* scaled by n. mean_value = sum / n is a floating point division: for     *)
(* equal values v it gives v or a neighbour of v (sum([0.1] * 3) / 3 is    *)
(* 0.10000000000000002), and then every deviation is the same rounding     *)
(* error, mean_error, instead of 0; the mean of zeros and the mean of two  *)
(* equal values are exact. Among different values the error is below what  *)
(* six decimals show.                                                      *)
(***************************************************************************)
MeanErrors == {0, 1}

Uniform(values) == \A a, b \in DOMAIN values : values[a] = values[b]

Deviation(values, mean_error, cid) ==
    IF Uniform(values)
    THEN IF Cardinality(DOMAIN values) >= 3 /\ values[cid] # 0 THEN 0 - mean_error ELSE 0
    ELSE Cardinality(DOMAIN values) * values[cid] - SumOver(values, DOMAIN values)

Denominator(values, mean_error) ==
    SumOver([cid \in DOMAIN values |->
                Deviation(values, mean_error, cid) * Deviation(values, mean_error, cid)],
            DOMAIN values)

\* lines 244 and 289: the neighbours of a cell inside the working set
WorkingNeighbors_with_self(values, cid, neighbor_ring) ==
    {nid \in _neighbors(cid, neighbor_ring) : nid \in DOMAIN values}

WorkingNeighbors_unfiltered(values, cid, neighbor_ring) ==
    {nid \in _neighbors(cid, neighbor_ring) : nid # cid}

WorkingNeighbors(values, cid, neighbor_ring) ==
    {nid \in _neighbors(cid, neighbor_ring) : nid \in DOMAIN values /\ nid # cid}

NeighborSum(values, mean_error, cid, neighbor_ring) ==
    SumOver([nid \in DOMAIN values |-> Deviation(values, mean_error, nid)],
            WorkingNeighbors(values, cid, neighbor_ring))

(***************************************************************************)
(* compute_global_moran_i, lines 224-252                                   *)
(***************************************************************************)
compute_global_moran_i(values, neighbor_ring, mean_error) ==
    LET n == Cardinality(DOMAIN values)
        denominator == Denominator(values, mean_error)
        numerator ==
            SumOver([cid \in DOMAIN values |->
                        Deviation(values, mean_error, cid)
                            * NeighborSum(values, mean_error, cid, neighbor_ring)],
                    DOMAIN values)
        s0 == SumOver([cid \in DOMAIN values |->
                        Cardinality(WorkingNeighbors(values, cid, neighbor_ring))],
                      DOMAIN values)
    IN IF n < 2 THEN Undefined
       ELSE IF denominator <= 0 THEN Undefined
       ELSE IF s0 <= 0 THEN Undefined
       ELSE _safe_round(n * numerator, s0 * denominator)

(***************************************************************************)
(* _build_pysal_weights, lines 275-302: no weights for fewer than two      *)
(* cells or for cells without any neighbour pair                           *)
(***************************************************************************)
_build_pysal_weights(values, neighbor_ring) ==
    /\ Cardinality(DOMAIN values) >= 2
    /\ \E cid \in DOMAIN values : WorkingNeighbors(values, cid, neighbor_ring) # {}

(***************************************************************************)
(* esda.moran.Moran(values, weights).I as _safe_round sees it, line 352:   *)
(* n / s0 * sum_i z_i * (mean of z over the neighbours of i) / sum_i z_i^2 *)
(* with row-standardised weights, s0 the number of cells with a neighbour; *)
(* 0 / 0 is NaN, which _safe_round turns into None.                        *)
(***************************************************************************)
EsdaMoranI(values, neighbor_ring, mean_error) ==
    LET ids == DOMAIN values
        n == Cardinality(ids)
        degree == [cid \in ids |-> Cardinality(WorkingNeighbors(values, cid, neighbor_ring))]
        linked == {cid \in ids : degree[cid] > 0}
        scale == ProductOver(degree, linked)
        z2ss == Denominator(values, mean_error)
        inum == SumOver([cid \in ids |->
                            IF cid \in linked
                            THEN Deviation(values, mean_error, cid)
                                    * (scale \div degree[cid])
                                    * NeighborSum(values, mean_error, cid, neighbor_ring)
                            ELSE 0],
                        ids)
    IN IF z2ss = 0
       THEN Undefined
       ELSE _safe_round(n * inum, scale * Cardinality(linked) * z2ss)

(***************************************************************************)
(* compute_global_moran_significance, lines 305-369. p_sim (or p_norm      *)
(* without permutations) is what the library gives.                        *)
(***************************************************************************)
NoGlobalMoran == [i |-> Undefined, p_value |-> None, significant |-> FALSE]

compute_global_moran_significance(values, neighbor_ring, alpha, mean_error, p_sim) ==
    IF ~_build_pysal_weights(values, neighbor_ring)
    THEN NoGlobalMoran
    ELSE LET observed_i == EsdaMoranI(values, neighbor_ring, mean_error)
         IN IF ~observed_i.defined
            THEN NoGlobalMoran
            ELSE [i |-> observed_i, p_value |-> p_sim,
                  significant |-> p_sim # None /\ p_sim < alpha]

(***************************************************************************)
(* _build_fdr_mask, lines 255-272 (Benjamini-Hochberg): p_values is a      *)
(* sequence, the mask a sequence of booleans. sorted() is stable.          *)
(* alpha * rank / m is a floating point product and quotient: when neither *)
(* rank nor m is a power of two both round, and the result is the exact    *)
(* quotient or the number just below it (0.173 * 3 / 3 is                  *)
(* 0.17299999999999996), quotient_error tells which.                       *)
(***************************************************************************)
QuotientErrors == {0, 1}

PowerOfTwo(k) == \E e \in 0..k : 2 ^ e = k

QuotientError(rank, m, quotient_error) ==
    IF PowerOfTwo(rank) \/ PowerOfTwo(m) THEN 0 ELSE quotient_error

\* the errors that can show in a working set: none with fewer than three values
LocalQuotientErrors(values) ==
    {e \in QuotientErrors : e = 0 \/ Cardinality(DOMAIN values) >= 3}

FdrValid(p_values) == {idx \in 1..Len(p_values) : p_values[idx] # None}

FdrRank(p_values, idx) ==
    1 + Cardinality({other \in FdrValid(p_values) :
                        \/ p_values[other] < p_values[idx]
                        \/ p_values[other] = p_values[idx] /\ other < idx})

FdrCutoffRank(p_values, alpha, quotient_error) ==
    LET m == Cardinality(FdrValid(p_values))
        passing == {FdrRank(p_values, idx) : idx \in
                        {i \in FdrValid(p_values) :
                            p_values[i] * m
                                + QuotientError(FdrRank(p_values, i), m, quotient_error)
                                    <= alpha * FdrRank(p_values, i)}}
    IN IF passing = {} THEN 0 ELSE CHOOSE r \in passing : \A o \in passing : o <= r

_build_fdr_mask(p_values, alpha, quotient_error) ==
    [idx \in 1..Len(p_values) |->
        /\ idx \in FdrValid(p_values)
        /\ FdrRank(p_values, idx) <= FdrCutoffRank(p_values, alpha, quotient_error)]

(***************************************************************************)
(* compute_local_spatial_significance, lines 372-554. lib is what          *)
(* esda.Moran_Local and esda.G_Local give for each cell: the p-values, the *)
(* quadrant and the sign of the Gi* z-score.                               *)
(***************************************************************************)
LibCells == [lisa_p : PValues, lisa_q : Quadrants, gi_p : PValues, gi_z : ZScores]

LocalDefault ==
    [lisa_p_value |-> None, lisa_significant |-> FALSE, lisa_cluster |-> "NS",
     gi_star_z_score |-> "None", gi_star_p_value |-> None,
     gi_star_significant |-> FALSE, gi_hotspot_type |-> "ns",
     is_significant |-> FALSE]

\* _safe_round(_safe_float(z), 6), lines 31-51, of a z-score
_safe_round_z(z) ==
    CASE z = "nan" -> "None"
      [] z \in {"small_negative", "zero", "small_positive"} -> "zero"
      [] OTHER -> z

q_to_cluster(cluster_code) ==
    CASE cluster_code = 1 -> "HH"
      [] cluster_code = 2 -> "LH"
      [] cluster_code = 3 -> "LL"
      [] cluster_code = 4 -> "HL"
      [] OTHER -> "NS"

\* line 519
lisa_cluster_unconditional(lisa_significant, cluster_code) == q_to_cluster(cluster_code)

lisa_cluster(lisa_significant, cluster_code) ==
    IF lisa_significant THEN q_to_cluster(cluster_code) ELSE "NS"

gi_hotspot_type_by_sign(gi_significant, gi_star_z) ==
    IF gi_star_z = "positive" THEN "hotspot"
    ELSE IF gi_star_z = "negative" THEN "coldspot"
    ELSE "ns"

\* lines 525-530
gi_hotspot_type(gi_significant, gi_star_z) ==
    IF gi_significant /\ gi_star_z = "positive" THEN "hotspot"
    ELSE IF gi_significant /\ gi_star_z = "negative" THEN "coldspot"
    ELSE "ns"

\* lines 471 and 509
sig_raw(p_for_test, alpha) ==
    [idx \in 1..Len(p_for_test) |-> p_for_test[idx] # None /\ p_for_test[idx] < alpha]

\* lines 472 and 510
sig_mask(p_for_test, alpha, use_fdr, permutations, quotient_error) ==
    IF use_fdr /\ permutations > 0
    THEN _build_fdr_mask(p_for_test, alpha, quotient_error)
    ELSE sig_raw(p_for_test, alpha)

\* lines 532-538: the counters of the loop over id_order
RECURSIVE CountLoop(_, _, _)
CountLoop(id_order, cells, counts) ==
    IF id_order = <<>>
    THEN counts
    ELSE LET cell == cells[Head(id_order)]
         IN CountLoop(Tail(id_order), cells,
                [significant_cell_count |->
                    counts.significant_cell_count + IF cell.is_significant THEN 1 ELSE 0,
                 hotspot_cell_count |->
                    counts.hotspot_cell_count
                        + IF cell.gi_hotspot_type = "hotspot" THEN 1 ELSE 0,
                 coldspot_cell_count |->
                    counts.coldspot_cell_count
                        + IF cell.gi_hotspot_type = "hotspot" THEN 0
                          ELSE IF cell.gi_hotspot_type = "coldspot" THEN 1 ELSE 0])

\* lines 398-402 and 532-538
LocalCounts(cells) ==
    CountLoop(cell_ids(DOMAIN cells), cells,
              [significant_cell_count |-> 0, hotspot_cell_count |-> 0,
               coldspot_cell_count |-> 0])

compute_local_spatial_significance(values, neighbor_ring, permutations, alpha, use_fdr, lib, quotient_error) ==
    LET defaults == [cid \in DOMAIN values |-> LocalDefault]
    IN IF ~_build_pysal_weights(values, neighbor_ring)
       THEN [cells |-> defaults, counts |-> LocalCounts(defaults)]
       ELSE IF Uniform(values)
       THEN [cells |-> defaults, counts |-> LocalCounts(defaults)]
       ELSE LET id_order == cell_ids(DOMAIN values)
                lisa_p == [idx \in 1..Len(id_order) |-> lib[id_order[idx]].lisa_p]
                gi_p == [idx \in 1..Len(id_order) |-> lib[id_order[idx]].gi_p]
                lisa_sig == sig_mask(lisa_p, alpha, use_fdr, permutations, quotient_error)
                gi_sig == sig_mask(gi_p, alpha, use_fdr, permutations, quotient_error)
                cells ==
                    [cid \in DOMAIN values |->
                        LET idx == IndexOf(id_order, cid)
                        IN [lisa_p_value |-> lisa_p[idx],
                            lisa_significant |-> lisa_sig[idx],
                            lisa_cluster |->
                                lisa_cluster(lisa_sig[idx], lib[cid].lisa_q),
                            gi_star_z_score |-> _safe_round_z(lib[cid].gi_z),
                            gi_star_p_value |-> gi_p[idx],
                            gi_star_significant |-> gi_sig[idx],
                            gi_hotspot_type |-> gi_hotspot_type(gi_sig[idx], _safe_round_z(lib[cid].gi_z)),
                            is_significant |-> lisa_sig[idx] \/ gi_sig[idx]]]
            IN [cells |-> cells, counts |-> LocalCounts(cells)]

(***************************************************************************)
(* analyze_h3_grid, lines 591-722, called as the router calls it: with the *)
(* default permutations, alpha, seed and without FDR.                      *)
(***************************************************************************)
significance_alpha == 2
moran_permutations == 4999

analyze_h3_grid(grid_ids, pois, h3_build, mean_error, p_sim, lib) ==
    IF grid_ids = {}
    THEN [grid_count |-> 0,
          cells |-> [cid \in {} |-> 0],
          summary |-> [poi_count |-> 0, global_moran |-> NoGlobalMoran,
                       counts |-> LocalCounts([cid \in {} |-> LocalDefault])]]
    ELSE LET aggregated == aggregate_pois_to_h3(grid_ids, pois)
             density == compute_cell_metrics(aggregated.stats_by_cell, h3_build)
             global == compute_global_moran_significance(
                            density, 1, significance_alpha, mean_error, p_sim)
             local == compute_local_spatial_significance(
                            density, 1, moran_permutations, significance_alpha, FALSE,
                            lib, 0)
         IN [grid_count |-> Cardinality(grid_ids),
             cells |-> [cid \in grid_ids |->
                            [poi_count |-> aggregated.stats_by_cell[cid],
                             density_poi_per_km2 |-> density[cid],
                             local |-> local.cells[cid]]],
             summary |-> [poi_count |-> aggregated.assigned_poi_count,
                          global_moran |-> global,
                          counts |-> local.counts]]

(***************************************************************************)
(* The calls of the functions: Init draws the arguments, the action of a   *)
(* function applies it, drawing what the library gives where the function  *)
(* asks the library.                                                       *)
(***************************************************************************)
NoCall == [fn |-> "none", pc |-> "done"]

StatsByCell == UNION {[ids -> Values] : ids \in SUBSET CellIds}

LocalStatsByCell ==
    UNION {[ids -> 0..1] : ids \in {s \in SUBSET CellIds : Cardinality(s) <= 2}}

AggregateCalls ==
    {[fn |-> "aggregate_pois_to_h3", pc |-> "pending", grid_ids |-> g, pois |-> p]
        : g \in GridSets, p \in PoiLists}

AnalyzeCalls ==
    {[fn |-> "analyze_h3_grid", pc |-> "pending", grid_ids |-> g, pois |-> p,
      h3_build |-> b, mean_error |-> e]
        : g \in GridSets, p \in PoiLists, b \in H3Builds, e \in MeanErrors}

MoranCalls ==
    {[fn |-> "compute_global_moran_i", pc |-> "pending", values |-> v,
      neighbor_ring |-> r, mean_error |-> e]
        : v \in StatsByCell, r \in NeighborRings, e \in MeanErrors}

MoranSignificanceCalls ==
    {[fn |-> "compute_global_moran_significance", pc |-> "pending", values |-> v,
      neighbor_ring |-> r, alpha |-> a, mean_error |-> e]
        : v \in StatsByCell, r \in NeighborRings, a \in Alphas, e \in MeanErrors}

LocalCalls ==
    {[fn |-> "compute_local_spatial_significance", pc |-> "pending", values |-> v,
      neighbor_ring |-> r, permutations |-> n, alpha |-> a, use_fdr |-> f]
        : v \in LocalStatsByCell, r \in NeighborRings, n \in PermutationCounts,
          a \in Alphas, f \in BOOLEAN}

\* what the library may give for the cells: the LISA outputs vary, or the Gi* outputs
\* vary, or both p-values vary
LisaCells == {c \in LibCells : c.gi_p = None /\ c.gi_z = "zero"}
GiCells == {c \in LibCells : c.lisa_p = None /\ c.lisa_q = 1}
BothCells == {c \in LibCells : c.lisa_q = 1 /\ c.gi_z = "positive"}
LocalLibs(ids) == [ids -> LisaCells] \cup [ids -> GiCells] \cup [ids -> BothCells]

\* the library is called after the early returns of lines 413-423 only
LibraryOutputs(values, neighbor_ring) ==
    IF ~_build_pysal_weights(values, neighbor_ring) \/ Uniform(values)
    THEN {[cid \in DOMAIN values |->
            [lisa_p |-> None, lisa_q |-> 0, gi_p |-> None, gi_z |-> "nan"]]}
    ELSE LocalLibs(DOMAIN values)

\* the same for every cell: nothing significant, a hot spot, a cold spot
SummaryCells ==
    {[lisa_p |-> None, lisa_q |-> 1, gi_p |-> None, gi_z |-> "zero"],
     [lisa_p |-> 1, lisa_q |-> 1, gi_p |-> 1, gi_z |-> "positive"],
     [lisa_p |-> 1, lisa_q |-> 3, gi_p |-> 1, gi_z |-> "negative"]}
SummaryLibs(ids) == {[cid \in ids |-> c] : c \in SummaryCells}

Apply_aggregate_pois_to_h3 ==
    /\ call.fn = "aggregate_pois_to_h3"
    /\ call.pc = "pending"
    /\ call' = [fn |-> call.fn, pc |-> "done", grid_ids |-> call.grid_ids,
                pois |-> call.pois,
                result |-> aggregate_pois_to_h3(call.grid_ids, call.pois)]
    /\ UNCHANGED <<hostVars, metricsVars>>

Apply_analyze_h3_grid(p_sim, lib) ==
    /\ call.fn = "analyze_h3_grid"
    /\ call.pc = "pending"
    /\ call' = [fn |-> call.fn, pc |-> "done", grid_ids |-> call.grid_ids,
                pois |-> call.pois, h3_build |-> call.h3_build,
                mean_error |-> call.mean_error,
                result |-> analyze_h3_grid(call.grid_ids, call.pois, call.h3_build,
                                           call.mean_error, p_sim, lib)]
    /\ UNCHANGED <<hostVars, metricsVars>>

Apply_compute_global_moran_i ==
    /\ call.fn = "compute_global_moran_i"
    /\ call.pc = "pending"
    /\ call' = [fn |-> call.fn, pc |-> "done", values |-> call.values,
                neighbor_ring |-> call.neighbor_ring, mean_error |-> call.mean_error,
                result |-> compute_global_moran_i(call.values, call.neighbor_ring,
                                                  call.mean_error)]
    /\ UNCHANGED <<hostVars, metricsVars>>

Apply_compute_global_moran_significance(p_sim) ==
    /\ call.fn = "compute_global_moran_significance"
    /\ call.pc = "pending"
    /\ call' = [fn |-> call.fn, pc |-> "done", values |-> call.values,
                neighbor_ring |-> call.neighbor_ring, alpha |-> call.alpha,
                mean_error |-> call.mean_error,
                result |-> compute_global_moran_significance(
                                call.values, call.neighbor_ring, call.alpha,
                                call.mean_error, p_sim)]
    /\ UNCHANGED <<hostVars, metricsVars>>

Apply_compute_local_spatial_significance(lib, quotient_error) ==
    /\ call.fn = "compute_local_spatial_significance"
    /\ call.pc = "pending"
    /\ call' = [fn |-> call.fn, pc |-> "done", values |-> call.values,
                neighbor_ring |-> call.neighbor_ring,
                permutations |-> call.permutations, alpha |-> call.alpha,
                use_fdr |-> call.use_fdr,
                result |-> compute_local_spatial_significance(
                                call.values, call.neighbor_ring, call.permutations,
                                call.alpha, call.use_fdr, lib, quotient_error)]
    /\ UNCHANGED <<hostVars, metricsVars>>

(***************************************************************************)
(* analyze_h3_grid on the threads of the process: the handler of           *)
(* POST /api/v1/analysis/h3-metrics (router/app.py, lines 332-349) hands   *)
(* it to asyncio.to_thread with eight positional arguments, other code     *)
(* calls it with keywords. The grid of a request has cells with different  *)
(* densities, so that both significance functions reach the library. A     *)
(* draw is the state of the generator it was taken from: the seed and the  *)
(* number of draws since seeding.                                          *)
(***************************************************************************)
Threads == {"t1", "t2"}
DefaultSeed == 42
Seeds == {DefaultSeed, 7}

Delegations ==
    {[use_arcgis |-> FALSE, arcgis_python_path |-> "default"],
     [use_arcgis |-> TRUE, arcgis_python_path |-> "not_exists"]}

MetricsRequests ==
    {[entry |-> "http", use_arcgis |-> d.use_arcgis,
      arcgis_python_path |-> d.arcgis_python_path, moran_seed |-> DefaultSeed]
        : d \in Delegations}
    \cup
    {[entry |-> "direct", use_arcgis |-> d.use_arcgis,
      arcgis_python_path |-> d.arcgis_python_path, moran_seed |-> s]
        : d \in Delegations, s \in Seeds}

NoMetricsRequest ==
    [entry |-> "none", use_arcgis |-> FALSE, arcgis_python_path |-> "default",
     moran_seed |-> 0]
IdleThread == [pc |-> "idle", req |-> NoMetricsRequest, draws |-> <<>>]
NoHttp ==
    [kind |-> "none", status |-> 0, req |-> NoMetricsRequest, source |-> "none",
     analysis_engine |-> "none", draws |-> <<>>]
Unseeded == [seed |-> 0, pos |-> 0]

\* analyze_h3_grid has no use_arcgis and no arcgis_python_path parameter (lines
\* 591-604): the keywords are a TypeError; the handler does not pass them on.
AnalyzeStarts(t, req) ==
    /\ thread[t].pc = "idle"
    /\ IF req.entry = "direct" /\ req.use_arcgis
       THEN /\ http' = [NoHttp EXCEPT !.kind = "TypeError", !.req = req]
            /\ UNCHANGED thread
       ELSE /\ thread' = [thread EXCEPT ![t] = [pc |-> "global_seed", req |-> req,
                                                  draws |-> <<>>]]
            /\ UNCHANGED http
    /\ UNCHANGED <<np_random_state, seed_kw, hostVars, call>>

\* np.random.seed(int(seed)), lines 334 and 429
SeedGlobalState(t, at, next) ==
    /\ thread[t].pc = at
    /\ np_random_state' = [seed |-> thread[t].req.moran_seed, pos |-> 0]
    /\ thread' = [thread EXCEPT ![t].pc = next]
    /\ UNCHANGED <<seed_kw, http, hostVars, call>>

\* Moran, Moran_Local or G_Local with the seed keyword, or without it after the
\* TypeError (lines 343-350, 445-452, 486-493): the permutations come from a
\* generator of the call or from the global one
LibraryDraws(t) ==
    IF seed_kw
    THEN [draw |-> [seed |-> thread[t].req.moran_seed, pos |-> 0],
          state |-> np_random_state]
    ELSE [draw |-> np_random_state,
          state |-> [np_random_state EXCEPT !.pos = @ + 1]]

LibraryCall(t, at, next) ==
    /\ thread[t].pc = at
    /\ np_random_state' = LibraryDraws(t).state
    /\ thread' = [thread EXCEPT ![t].pc = next,
                                ![t].draws = Append(@, LibraryDraws(t).draw)]
    /\ UNCHANGED <<seed_kw, http, hostVars, call>>

\* G_Local and the return of analyze_h3_grid: the handler answers 200 with the
\* statistics computed in this process, labelled with the schema's default engine
AnalyzeReturns(t) ==
    /\ thread[t].pc = "gi_local"
    /\ np_random_state' = LibraryDraws(t).state
    /\ http' = [kind |-> "ok",
                status |-> IF thread[t].req.entry = "http" THEN 200 ELSE 0,
                req |-> thread[t].req, source |-> "local",
                analysis_engine |-> "arcgis",
                draws |-> Append(thread[t].draws, LibraryDraws(t).draw)]
    /\ thread' = [thread EXCEPT ![t] = IdleThread]
    /\ UNCHANGED <<seed_kw, hostVars, call>>

(***************************************************************************)
(* Initial states and specifications.                                      *)
(***************************************************************************)
Init ==
    /\ analyze_cache = <<>>
    /\ clock = 0
    /\ worker = [w \in Workers |-> IdleWorker]
    /\ response = NoResponse
    /\ client = IdleClient
    /\ np_random_state = Unseeded
    /\ seed_kw = FALSE
    /\ thread = [t \in Threads |-> IdleThread]
    /\ http = NoHttp
    /\ call = NoCall

(***************************************************************************)
(* SpecCache: requests reach ArcGISRunner.run on the worker threads of the *)
(* host bridge. analyze_h3 is a sync handler, so the threadpool runs it    *)
(* concurrently and run() takes no lock.                                   *)
(***************************************************************************)
CacheNext ==
    \/ \E w \in Workers, req \in AnalyzeRequests :
            RunLookup(w, req) /\ UNCHANGED <<client, analysisVars>>
    \/ \E w \in Workers, outcome \in SubprocessOutcomes, out \in Outputs :
            RunSubprocess(w, outcome, out) /\ UNCHANGED <<client, analysisVars>>
    \/ Tick /\ UNCHANGED <<client, analysisVars>>

SpecCache == Init /\ [][CacheNext]_vars

(***************************************************************************)
(* SpecBridge: one caller of run_arcgis_h3_analysis after another, each    *)
(* request answered by analyze_h3 on one worker thread of the host or by   *)
(* someone else; a caller that gave up leaves its run behind on the host.  *)
(***************************************************************************)
BridgeNext ==
    \/ \E enabled \in BOOLEAN, token \in Tokens, features \in Features,
          python_path \in PythonPaths :
            ClientCall(enabled, token, features, python_path) /\ UNCHANGED analysisVars
    \/ \E host_token \in HostTokens : HostRejects(host_token) /\ UNCHANGED analysisVars
    \/ HostRuns(HostWorker) /\ UNCHANGED analysisVars
    \/ \E outcome \in SubprocessOutcomes, out \in Outputs :
            HostFinishes(HostWorker, outcome, out) /\ UNCHANGED analysisVars
    \/ \E kind \in {"timeout", "unreachable"} :
            TransportFails(kind) /\ UNCHANGED analysisVars
    \/ \E status \in HttpStatuses, body \in ForeignBodies, out \in Outputs :
            ForeignReply(status, body, out) /\ UNCHANGED analysisVars
    \/ Tick /\ UNCHANGED <<client, analysisVars>>

SpecBridge == Init /\ [][BridgeNext]_vars

(***************************************************************************)
(* SpecMetrics: two threads run analyze_h3_grid, with either build of the  *)
(* library.                                                                *)
(***************************************************************************)
MetricsInit ==
    /\ analyze_cache = <<>>
    /\ clock = 0
    /\ worker = [w \in Workers |-> IdleWorker]
    /\ response = NoResponse
    /\ client = IdleClient
    /\ np_random_state = Unseeded
    /\ seed_kw \in BOOLEAN
    /\ thread = [t \in Threads |-> IdleThread]
    /\ http = NoHttp
    /\ call = NoCall

MetricsNext ==
    \/ \E t \in Threads, req \in MetricsRequests : AnalyzeStarts(t, req)
    \/ \E t \in Threads : SeedGlobalState(t, "global_seed", "global_moran")
    \/ \E t \in Threads : LibraryCall(t, "global_moran", "local_seed")
    \/ \E t \in Threads : SeedGlobalState(t, "local_seed", "local_moran")
    \/ \E t \in Threads : LibraryCall(t, "local_moran", "gi_local")
    \/ \E t \in Threads : AnalyzeReturns(t)

SpecMetrics == MetricsInit /\ [][MetricsNext]_vars

(***************************************************************************)
(* SpecAggregate: calls of aggregate_pois_to_h3 and of analyze_h3_grid.    *)
(***************************************************************************)
AggregateInit ==
    /\ analyze_cache = <<>>
    /\ clock = 0
    /\ worker = [w \in Workers |-> IdleWorker]
    /\ response = NoResponse
    /\ client = IdleClient
    /\ np_random_state = Unseeded
    /\ seed_kw = FALSE
    /\ thread = [t \in Threads |-> IdleThread]
    /\ http = NoHttp
    /\ \/ call \in AggregateCalls
       \/ call \in AnalyzeCalls

AggregateNext ==
    \/ Apply_aggregate_pois_to_h3
    \/ /\ call.fn = "analyze_h3_grid"
       /\ \E p_sim \in PValues, lib \in SummaryLibs(call.grid_ids) :
                Apply_analyze_h3_grid(p_sim, lib)

SpecAggregate == AggregateInit /\ [][AggregateNext]_vars

(***************************************************************************)
(* SpecMoran: calls of compute_global_moran_i and of                       *)
(* compute_global_moran_significance.                                      *)
(***************************************************************************)
MoranInit ==
    /\ analyze_cache = <<>>
    /\ clock = 0
    /\ worker = [w \in Workers |-> IdleWorker]
    /\ response = NoResponse
    /\ client = IdleClient
    /\ np_random_state = Unseeded
    /\ seed_kw = FALSE
    /\ thread = [t \in Threads |-> IdleThread]
    /\ http = NoHttp
    /\ \/ call \in MoranCalls
       \/ call \in MoranSignificanceCalls

MoranNext ==
    \/ Apply_compute_global_moran_i
    \/ \E p_sim \in PValues : Apply_compute_global_moran_significance(p_sim)

SpecMoran == MoranInit /\ [][MoranNext]_vars

(***************************************************************************)
(* SpecLocal: calls of compute_local_spatial_significance.                 *)
(***************************************************************************)
LocalInit ==
    /\ analyze_cache = <<>>
    /\ clock = 0
    /\ worker = [w \in Workers |-> IdleWorker]
    /\ response = NoResponse
    /\ client = IdleClient
    /\ np_random_state = Unseeded
    /\ seed_kw = FALSE
    /\ thread = [t \in Threads |-> IdleThread]
    /\ http = NoHttp
    /\ call \in LocalCalls

LocalNext ==
    /\ call.fn = "compute_local_spatial_significance"
    /\ call.pc = "pending"
    /\ \E lib \in LibraryOutputs(call.values, call.neighbor_ring),
          quotient_error \in LocalQuotientErrors(call.values) :
            Apply_compute_local_spatial_significance(lib, quotient_error)

SpecLocal == LocalInit /\ [][LocalNext]_vars

(***************************************************************************)
(* SpecStatistics: calls of the three statistics functions.                *)
(***************************************************************************)
StatisticsInit ==
    /\ analyze_cache = <<>>
    /\ clock = 0
    /\ worker = [w \in Workers |-> IdleWorker]
    /\ response = NoResponse
    /\ client = IdleClient
    /\ np_random_state = Unseeded
    /\ seed_kw = FALSE
    /\ thread = [t \in Threads |-> IdleThread]
    /\ http = NoHttp
    /\ \/ call \in MoranCalls
       \/ call \in MoranSignificanceCalls
       \/ call \in LocalCalls

StatisticsNext ==
    \/ Apply_compute_global_moran_i
    \/ \E p_sim \in PValues : Apply_compute_global_moran_significance(p_sim)
    \/ /\ call.fn = "compute_local_spatial_significance"
       /\ call.pc = "pending"
       /\ \E lib \in LibraryOutputs(call.values, call.neighbor_ring),
             quotient_error \in LocalQuotientErrors(call.values) :
                Apply_compute_local_spatial_significance(lib, quotient_error)

SpecStatistics == StatisticsInit /\ [][StatisticsNext]_vars

(***************************************************************************)
(* grid_h3/core.py. The plane is cut along a line into units; a cell of    *)
(* the resolution covers three units in a row, the middle one holding its  *)
(* centre. The region of a boundary is the set of units inside it (a       *)
(* boundary that is not convex leaves gaps along the line); its envelope   *)
(* is the span of the region. An area is a number of units, a ratio a      *)
(* number of thirds.                                                       *)
(***************************************************************************)
NumStripCells == 3

StripCells == 1..NumStripCells
Units == 1..(3 * NumStripCells)
Regions == SUBSET Units
IncludeModes == {"intersects", "inside"}
MinOverlapRatios == {0, 1, 3, 4}

CellUnits(h3_index) == (3 * h3_index - 2)..(3 * h3_index)
CellCentre(h3_index) == 3 * h3_index - 1

\* source_polygon_wgs84.envelope, line 295
Envelope(region) ==
    IF region = {}
    THEN {}
    ELSE {u \in Units : /\ \E a \in region : a <= u
                        /\ \E b \in region : u <= b}

\* polygon_to_hexagons, lines 62-116: h3.geo_to_cells keeps the cells whose centre
\* is in the polygon
polygon_to_hexagons(region) ==
    {h3_index \in StripCells : CellCentre(h3_index) \in region}

\* _expand_hexagons_with_neighbors, lines 201-214
_expand_hexagons_with_neighbors(hexagons, ring_size) ==
    IF ring_size <= 0
    THEN hexagons
    ELSE hexagons \cup
            {c \in StripCells : \E h3_index \in hexagons : Abs(c - h3_index) <= ring_size}

\* normalized_source.covers(cell_polygon), line 240
CellCovered_by_centre(region, h3_index) == CellCentre(h3_index) \in region

CellCovered(region, h3_index) == CellUnits(h3_index) \subseteq region

\* normalized_source.intersects(cell_polygon), line 242: a common unit or a common
\* border point
CellIntersects(region, h3_index) ==
    \E u \in region : (3 * h3_index - 3) <= u /\ u <= (3 * h3_index + 1)

\* inter_area / cell_area, lines 245-247
OverlapRatio(region, h3_index) == Cardinality(CellUnits(h3_index) \cap region)

hexagons_to_geojson_features_at_most(hexagons, region, include_mode, min_overlap_ratio) ==
    IF region = {}
    THEN {}
    ELSE {[h3_id |-> h3_index, include_mode |-> include_mode,
           overlap_ratio |-> OverlapRatio(region, h3_index)]
            : h3_index \in {c \in hexagons :
                                /\ CellIntersects(region, c)
                                /\ OverlapRatio(region, c) <= min_overlap_ratio}}

\* hexagons_to_geojson_features, lines 217-265: the features by h3_id with their
\* overlap_ratio property
hexagons_to_geojson_features(hexagons, region, include_mode, min_overlap_ratio) ==
    IF region = {}
    THEN {}
    ELSE IF include_mode = "inside"
    THEN {[h3_id |-> h3_index, include_mode |-> include_mode, overlap_ratio |-> 0]
            : h3_index \in {c \in hexagons : CellCovered(region, c)}}
    ELSE {[h3_id |-> h3_index, include_mode |-> include_mode,
           overlap_ratio |-> OverlapRatio(region, h3_index)]
            : h3_index \in {c \in hexagons :
                                /\ CellIntersects(region, c)
                                /\ OverlapRatio(region, c) >= min_overlap_ratio}}

\* max(0.0, min(1.0, float(min_overlap_ratio or 0.0))), line 311
ClampRatio(min_overlap_ratio) ==
    IF min_overlap_ratio < 0 THEN 0
    ELSE IF min_overlap_ratio > 3 THEN 3
    ELSE min_overlap_ratio

\* build_h3_grid_feature_collection, lines 268-319
build_h3_grid_feature_collection(region, include_mode, min_overlap_ratio) ==
    IF region = {}
    THEN [features |-> {}, count |-> 0]
    ELSE LET candidate_polygon ==
                IF include_mode = "intersects" THEN Envelope(region) ELSE region
             seed_hexagons == polygon_to_hexagons(candidate_polygon)
             hexagons ==
                IF include_mode = "intersects"
                THEN _expand_hexagons_with_neighbors(seed_hexagons, 1)
                ELSE seed_hexagons
             features == hexagons_to_geojson_features(
                            hexagons, region, include_mode, ClampRatio(min_overlap_ratio))
         IN [features |-> features, count |-> Cardinality(features)]

GridCalls ==
    {[fn |-> "build_h3_grid_feature_collection", pc |-> "pending", region |-> g,
      include_mode |-> i, min_overlap_ratio |-> r]
        : g \in Regions, i \in IncludeModes, r \in MinOverlapRatios}

Apply_build_h3_grid_feature_collection ==
    /\ call.fn = "build_h3_grid_feature_collection"
    /\ call.pc = "pending"
    /\ call' = [fn |-> call.fn, pc |-> "done", region |-> call.region,
                include_mode |-> call.include_mode,
                min_overlap_ratio |-> call.min_overlap_ratio,
                result |-> build_h3_grid_feature_collection(
                                call.region, call.include_mode, call.min_overlap_ratio)]
    /\ UNCHANGED <<hostVars, metricsVars>>

(***************************************************************************)
(* SpecGrid: calls of build_h3_grid_feature_collection.                    *)
(***************************************************************************)
GridInit ==
    /\ analyze_cache = <<>>
    /\ clock = 0
    /\ worker = [w \in Workers |-> IdleWorker]
    /\ response = NoResponse
    /\ client = IdleClient
    /\ np_random_state = Unseeded
    /\ seed_kw = FALSE
    /\ thread = [t \in Threads |-> IdleThread]
    /\ http = NoHttp
    /\ call \in GridCalls

GridNext == Apply_build_h3_grid_feature_collection

SpecGrid == GridInit /\ [][GridNext]_vars

(***************************************************************************)
(* The neighbour graph of a working set: neighbors_map of                  *)
(* _build_pysal_weights, lines 285-290, which compute_neighbor_metrics and *)
(* the significance functions use, and the neighbours of                   *)
(* compute_global_moran_i, line 244. A key of stats_by_cell is a cell or   *)
(* the id 0, which is no cell.                                             *)
(***************************************************************************)
WorkingSets == SUBSET (0..NumCells)
RingSizes == 1..3

neighbors_map(cell_set, neighbor_ring) ==
    [cid \in cell_set |-> WorkingNeighbors([c \in cell_set |-> 0], cid, neighbor_ring)]

NeighborCalls ==
    {[fn |-> "_build_pysal_weights", pc |-> "pending", cell_ids |-> s,
      neighbor_ring |-> r]
        : s \in WorkingSets, r \in RingSizes}

Apply__build_pysal_weights ==
    /\ call.fn = "_build_pysal_weights"
    /\ call.pc = "pending"
    /\ call' = [fn |-> call.fn, pc |-> "done", cell_ids |-> call.cell_ids,
                neighbor_ring |-> call.neighbor_ring,
                result |->
                    [weights |-> _build_pysal_weights([c \in call.cell_ids |-> 0],
                                                      call.neighbor_ring),
                     neighbors_map |-> neighbors_map(call.cell_ids, call.neighbor_ring)]]
    /\ UNCHANGED <<hostVars, metricsVars>>

(***************************************************************************)
(* SpecNeighbors: calls of _build_pysal_weights.                           *)
(***************************************************************************)
NeighborsInit ==
    /\ analyze_cache = <<>>
    /\ clock = 0
    /\ worker = [w \in Workers |-> IdleWorker]
    /\ response = NoResponse
    /\ client = IdleClient
    /\ np_random_state = Unseeded
    /\ seed_kw = FALSE
    /\ thread = [t \in Threads |-> IdleThread]
    /\ http = NoHttp
    /\ call \in NeighborCalls

NeighborsNext == Apply__build_pysal_weights

SpecNeighbors == NeighborsInit /\ [][NeighborsNext]_vars

(***************************************************************************)
(* _shannon_entropy, lines 109-117: the entropy of the category histogram  *)
(* of a cell in thousandths of a nat, ln(total) - sum(c * ln(c)) / total   *)
(* over the buckets with c > 0. LnMilli[k] is 1000 * ln(k).                *)
(***************************************************************************)
MaxCategoryCount == 2

CategoryKeys ==
    {"dining", "shopping", "life", "transport", "scenic", "education", "medical"}

CategoryCounts == [CategoryKeys -> 0..MaxCategoryCount]

LnMilli ==
    <<0, 693, 1099, 1386, 1609, 1792, 1946, 2079, 2197, 2303, 2398, 2485, 2565, 2639,
      2708, 2773, 2833, 2890, 2944, 2996, 3045, 3091, 3135, 3178, 3219, 3258, 3296, 3332>>

EntropyMilli(counts, keys) ==
    LET total == SumOver(counts, keys)
    IN (total * LnMilli[total]
            - SumOver([k \in keys |-> counts[k] * LnMilli[counts[k]]], keys)) \div total

\* the entropy of the counts with one added to every bucket
_shannon_entropy_smoothed(category_counts) ==
    EntropyMilli([k \in DOMAIN category_counts |-> category_counts[k] + 1],
                 DOMAIN category_counts)

_shannon_entropy(category_counts) ==
    LET positive == {k \in DOMAIN category_counts : category_counts[k] > 0}
    IN IF DOMAIN category_counts = {} THEN 0
       ELSE IF positive = {} THEN 0
       ELSE EntropyMilli(category_counts, positive)

EntropyCalls ==
    {[fn |-> "_shannon_entropy", pc |-> "pending", category_counts |-> c]
        : c \in CategoryCounts}

\* compute_cell_metrics, line 177-179: local_entropy of the cell
Apply__shannon_entropy ==
    /\ call.fn = "_shannon_entropy"
    /\ call.pc = "pending"
    /\ call' = [fn |-> call.fn, pc |-> "done", category_counts |-> call.category_counts,
                local_entropy |-> _shannon_entropy(call.category_counts)]
    /\ UNCHANGED <<hostVars, metricsVars>>

(***************************************************************************)
(* SpecEntropy: calls of _shannon_entropy.                                 *)
(***************************************************************************)
EntropyInit ==
    /\ analyze_cache = <<>>
    /\ clock = 0
    /\ worker = [w \in Workers |-> IdleWorker]
    /\ response = NoResponse
    /\ client = IdleClient
    /\ np_random_state = Unseeded
    /\ seed_kw = FALSE
    /\ thread = [t \in Threads |-> IdleThread]
    /\ http = NoHttp
    /\ call \in EntropyCalls

EntropyNext == Apply__shannon_entropy

SpecEntropy == EntropyInit /\ [][EntropyNext]_vars

(***************************************************************************)
(* build_chart_payload, lines 557-588: the density histogram. A density is *)
(* a whole number or Infinity, which stands for the values np.isfinite     *)
(* rejects.                                                                *)
(***************************************************************************)
Infinity == 999999

DensitySamples == {0, 1, 7, 200, 1000, Infinity}
DensityLists == UNION {[1..k -> DensitySamples] : k \in 0..NumCells}

edges_short == <<0, 1, 2, 5, 10>>

edges == <<0, 1, 2, 5, 10, 20, 50, 100, 200>>

hist_labels ==
    [i \in 1..Len(edges) |->
        IF i < Len(edges)
        THEN ToString(edges[i]) \o "-" \o ToString(edges[i + 1])
        ELSE ">=" \o ToString(edges[i])]

\* np.digitize(density_arr, bin_edges, right=False) - 1, clipped; bins count from 1
bin_index(density) ==
    LET digitized == Cardinality({i \in 1..Len(edges) : edges[i] <= density})
    IN IF digitized < 1 THEN 1
       ELSE IF digitized > Len(hist_labels) THEN Len(hist_labels)
       ELSE digitized

build_chart_payload(density_values) ==
    LET finite == {i \in 1..Len(density_values) : density_values[i] # Infinity}
    IN [bins |-> hist_labels,
        counts |-> [b \in 1..Len(hist_labels) |->
                        Cardinality({i \in finite : bin_index(density_values[i]) = b})]]

ChartCalls ==
    {[fn |-> "build_chart_payload", pc |-> "pending", density_values |-> d]
        : d \in DensityLists}

Apply_build_chart_payload ==
    /\ call.fn = "build_chart_payload"
    /\ call.pc = "pending"
    /\ call' = [fn |-> call.fn, pc |-> "done", density_values |-> call.density_values,
                result |-> build_chart_payload(call.density_values)]
    /\ UNCHANGED <<hostVars, metricsVars>>

(***************************************************************************)
(* SpecCharts: calls of build_chart_payload, from analyze_h3_grid with the *)
(* densities of the grid or with none for an empty grid.                   *)
(***************************************************************************)
ChartsInit ==
    /\ analyze_cache = <<>>
    /\ clock = 0
    /\ worker = [w \in Workers |-> IdleWorker]
    /\ response = NoResponse
    /\ client = IdleClient
    /\ np_random_state = Unseeded
    /\ seed_kw = FALSE
    /\ thread = [t \in Threads |-> IdleThread]
    /\ http = NoHttp
    /\ call \in ChartCalls

ChartsNext == Apply_build_chart_payload

SpecCharts == ChartsInit /\ [][ChartsNext]_vars

(***************************************************************************)
(* SpecEvict: one run of ArcGISRunner.run after another, for five          *)
(* fingerprints, one more than the table may hold; the subprocess ends     *)
(* well or runs out of time.                                               *)
(***************************************************************************)
EvictRequests ==
    [rows : 1..(analyze_cache_max_entries + 1), knn_neighbors : KnnValues,
     arcgis_python_path : {"arcpy"}]

EvictOutcomes == {"ok", "timeout"}

EvictNext ==
    \/ \E req \in EvictRequests :
            RunLookup(HostWorker, req) /\ UNCHANGED <<client, analysisVars>>
    \/ \E outcome \in EvictOutcomes :
            RunSubprocess(HostWorker, outcome, 1) /\ UNCHANGED <<client, analysisVars>>
    \/ Tick /\ UNCHANGED <<client, analysisVars>>

SpecEvict == Init /\ [][EvictNext]_vars

(***************************************************************************)
(* SpecReplies: callers of run_arcgis_h3_analysis and the answers an       *)
(* endpoint may give them, those not in the agreed shape included.         *)
(***************************************************************************)
RepliesNext ==
    \/ \E enabled \in BOOLEAN, token \in Tokens, features \in Features,
          python_path \in PythonPaths :
            ClientCall(enabled, token, features, python_path) /\ UNCHANGED analysisVars
    \/ \E kind \in {"timeout", "unreachable"} :
            TransportFails(kind) /\ UNCHANGED analysisVars
    \/ \E status \in HttpStatuses, body \in ForeignBodies \cup MalformedBodies,
          out \in Outputs :
            ForeignReply(status, body, out) /\ UNCHANGED analysisVars
    \/ \E host_token \in HostTokens : HostRejects(host_token) /\ UNCHANGED analysisVars
    \/ Tick /\ UNCHANGED <<client, analysisVars>>

SpecReplies == Init /\ [][RepliesNext]_vars

(***************************************************************************)
(* SpecBridgeLive: SpecBridge with the timeouts of the code as fairness:   *)
(* httpx.Client(timeout=bridge_timeout) ends a request that gets no answer *)
(* (arcgis_bridge.py, lines 372-376), subprocess.run(timeout=timeout_sec)  *)
(* ends a subprocess that does not end by itself (runner.py, lines         *)
(* 252-262).                                                               *)
(***************************************************************************)
ClientTimeout == TransportFails("timeout") /\ UNCHANGED analysisVars

SubprocessTimeout ==
    \E outcome \in {o \in SubprocessOutcomes : o = "timeout"}, out \in Outputs :
        HostFinishes(HostWorker, outcome, out) /\ UNCHANGED analysisVars

SpecBridgeLive ==
    /\ Init
    /\ [][BridgeNext]_vars
    /\ WF_vars(ClientTimeout)
    /\ WF_vars(SubprocessTimeout)

(***************************************************************************)
(* The boundary of a request, grid_h3/core.py lines 11-60. A point of      *)
(* polygon_coords is one of NumPoints places, or 0 for an entry that is no *)
(* pair of numbers. shape is the region shapely gives for a ring of three  *)
(* or more places: empty when they lie on a line or the repair leaves      *)
(* nothing; a ring of fewer places has no area, is not valid, and          *)
(* buffer(0) leaves nothing of it.                                         *)
(***************************************************************************)
NumPoints == 3

MaxRingLen == NumPoints + 1
PolygonCoords == UNION {[1..k -> 0..NumPoints] : k \in 0..MaxRingLen}
Shapes == {{}, Units} \cup {CellUnits(h3_index) : h3_index \in StripCells}

\* lines 49-55: the entries that are a pair of numbers
ValidPoint(pt) == pt # 0

\* _ensure_closed_ring, lines 11-16
_ensure_closed_ring(coords) ==
    IF coords = <<>> THEN <<>>
    ELSE IF coords[1] = coords[Len(coords)] THEN coords
    ELSE Append(coords, coords[1])

\* _normalize_polygon, lines 19-34, of Polygon(coords)
_normalize_polygon(coords, shape) ==
    IF Cardinality({coords[k] : k \in 1..Len(coords)}) < 3 THEN {} ELSE shape

_coords_to_polygon_unchecked(polygon_coords, shape) ==
    IF SelectSeq(polygon_coords, ValidPoint) = <<>> THEN {} ELSE shape

\* _coords_to_polygon, lines 47-60
_coords_to_polygon(polygon_coords, shape) ==
    LET coords == _ensure_closed_ring(SelectSeq(polygon_coords, ValidPoint))
    IN IF Len(coords) < 4 THEN {} ELSE _normalize_polygon(coords, shape)

\* analyze_h3_grid, lines 605-632, from the boundary on: the grid and what
\* analyze_h3_grid makes of its h3_ids
analyze_boundary(polygon, shape, include_mode, pois, p_sim, lib) ==
    LET grid == build_h3_grid_feature_collection(
                    _coords_to_polygon(polygon, shape), include_mode, 0)
        grid_ids == {f.h3_id : f \in grid.features}
    IN [grid |-> grid,
        analysis |-> analyze_h3_grid(grid_ids, pois, "hex_area", 0, p_sim,
                                     [cid \in grid_ids |-> lib])]

BoundaryCalls ==
    {[fn |-> "analyze_h3_grid", pc |-> "pending", polygon |-> g, include_mode |-> i,
      pois |-> p]
        : g \in PolygonCoords, i \in IncludeModes,
          p \in {l \in PoiLists : Len(l) <= 1}}

Apply_analyze_boundary(shape, p_sim, lib) ==
    /\ call.fn = "analyze_h3_grid"
    /\ call.pc = "pending"
    /\ call' = [fn |-> call.fn, pc |-> "done", polygon |-> call.polygon,
                include_mode |-> call.include_mode, pois |-> call.pois,
                shape |-> shape,
                result |-> analyze_boundary(call.polygon, shape, call.include_mode,
                                            call.pois, p_sim, lib)]
    /\ UNCHANGED <<hostVars, metricsVars>>

(***************************************************************************)
(* SpecBoundary: calls of analyze_h3_grid with a boundary.                 *)
(***************************************************************************)
BoundaryInit ==
    /\ analyze_cache = <<>>
    /\ clock = 0
    /\ worker = [w \in Workers |-> IdleWorker]
    /\ response = NoResponse
    /\ client = IdleClient
    /\ np_random_state = Unseeded
    /\ seed_kw = FALSE
    /\ thread = [t \in Threads |-> IdleThread]
    /\ http = NoHttp
    /\ call \in BoundaryCalls

BoundaryNext ==
    \E shape \in Shapes, p_sim \in PValues, lib \in SummaryCells :
        Apply_analyze_boundary(shape, p_sim, lib)

SpecBoundary == BoundaryInit /\ [][BoundaryNext]_vars

(***************************************************************************)
(* SpecOverlap: build_h3_grid_feature_collection called twice for one      *)
(* boundary in 'intersects' mode, with two minimum overlap ratios in       *)
(* [0, 1], the first not above the second.                                 *)
(***************************************************************************)
UnitRatios == {r \in MinOverlapRatios \cup {2} : ClampRatio(r) = r}

OverlapCalls ==
    {[fn |-> "build_h3_grid_feature_collection", pc |-> "pending", region |-> g,
      include_mode |-> "intersects", low_ratio |-> r1, high_ratio |-> r2]
        : g \in Regions, r1 \in UnitRatios, r2 \in UnitRatios}

Apply_build_two_grids ==
    /\ call.fn = "build_h3_grid_feature_collection"
    /\ call.pc = "pending"
    /\ call.low_ratio <= call.high_ratio
    /\ call' = [fn |-> call.fn, pc |-> "done", region |-> call.region,
                include_mode |-> call.include_mode,
                low_ratio |-> call.low_ratio, high_ratio |-> call.high_ratio,
                low_result |-> build_h3_grid_feature_collection(
                                    call.region, call.include_mode, call.low_ratio),
                high_result |-> build_h3_grid_feature_collection(
                                    call.region, call.include_mode, call.high_ratio)]
    /\ UNCHANGED <<hostVars, metricsVars>>

OverlapInit ==
    /\ analyze_cache = <<>>
    /\ clock = 0
    /\ worker = [w \in Workers |-> IdleWorker]
    /\ response = NoResponse
    /\ client = IdleClient
    /\ np_random_state = Unseeded
    /\ seed_kw = FALSE
    /\ thread = [t \in Threads |-> IdleThread]
    /\ http = NoHttp
    /\ call \in {c \in OverlapCalls : c.low_ratio <= c.high_ratio}

OverlapNext == Apply_build_two_grids

SpecOverlap == OverlapInit /\ [][OverlapNext]_vars

(***************************************************************************)
(* SpecFdr: calls of _build_fdr_mask.                                      *)
(***************************************************************************)
FdrCalls ==
    {[fn |-> "_build_fdr_mask", pc |-> "pending", p_values |-> p, alpha |-> a]
        : p \in UNION {[1..k -> PValues] : k \in 0..NumCells}, a \in Alphas}

Apply__build_fdr_mask(quotient_error) ==
    /\ call.fn = "_build_fdr_mask"
    /\ call.pc = "pending"
    /\ call' = [fn |-> call.fn, pc |-> "done", p_values |-> call.p_values,
                alpha |-> call.alpha,
                result |-> _build_fdr_mask(call.p_values, call.alpha, quotient_error)]
    /\ UNCHANGED <<hostVars, metricsVars>>

FdrInit ==
    /\ analyze_cache = <<>>
    /\ clock = 0
    /\ worker = [w \in Workers |-> IdleWorker]
    /\ response = NoResponse
    /\ client = IdleClient
    /\ np_random_state = Unseeded
    /\ seed_kw = FALSE
    /\ thread = [t \in Threads |-> IdleThread]
    /\ http = NoHttp
    /\ call \in FdrCalls

FdrNext == \E quotient_error \in QuotientErrors : Apply__build_fdr_mask(quotient_error)

SpecFdr == FdrInit /\ [][FdrNext]_vars

(***************************************************************************)
(* SpecKey: the cache holds the entry of one successful run; the script    *)
(* file may have been replaced or saved again since, and a second request  *)
(* is looked up (ArcGISRunner.run, lines 343-388).                         *)
(***************************************************************************)
MaxMtime == 3

\* ArcGISH3AnalyzeRequest with rows and an existing python path
KeyRequests ==
    [rows : RowSets \ {0}, knn_neighbors : {6, 8},
     arcgis_python_path : ExistingPythonPaths, export_image : BOOLEAN,
     timeout_sec : {30, 240}, run_id : {"none", "run-1"}]

ScriptFiles == [path : ScriptPaths, st_mtime : 0..MaxMtime]

\* the key run computes for a request while the script file is as given
RunKey(req, script) ==
    _build_analyze_cache_key(req.rows, req.knn_neighbors, req.arcgis_python_path,
                             script.path, script.st_mtime)

KeyCalls ==
    {[fn |-> "run", pc |-> "pending", stored |-> s, stored_script |-> f,
      asked |-> a, asked_script |-> g]
        : s \in {r \in KeyRequests :
                    r.export_image /\ r.timeout_sec = 240 /\ r.run_id = "none"},
          f \in ScriptFiles, a \in KeyRequests, g \in ScriptFiles}

Apply_run ==
    /\ call.fn = "run"
    /\ call.pc = "pending"
    /\ RunLookupAt(HostWorker, call.asked, call.asked_script.path,
                   call.asked_script.st_mtime)
    /\ call' = [call EXCEPT !.pc = "done"]
    /\ UNCHANGED <<client, metricsVars>>

KeyInit ==
    /\ clock = 0
    /\ worker = [w \in Workers |-> IdleWorker]
    /\ response = NoResponse
    /\ client = IdleClient
    /\ np_random_state = Unseeded
    /\ seed_kw = FALSE
    /\ thread = [t \in Threads |-> IdleThread]
    /\ http = NoHttp
    /\ call \in KeyCalls
    /\ analyze_cache =
            _put_cached_analyze(<<>>, RunKey(call.stored, call.stored_script),
                                [cells |-> 1, global_moran |-> 1], 0)

KeyNext == Apply_run

SpecKey == KeyInit /\ [][KeyNext]_vars

(***************************************************************************)
(* SpecAlias: the objects behind a cached result.  The heap is a sequence  *)
(* of objects, a reference is an index into it: a list holds references to *)
(* its items, a dict of numbers holds its content.  list(x) and dict(x)    *)
(* make a new object with the same items (runner.py 319-320, 334-335).     *)
(***************************************************************************)
MaxHits == 2

ListObject(items) == [kind |-> "list", items |-> items, value |-> 0]
DictObject(value) == [kind |-> "dict", items |-> <<>>, value |-> value]

ShallowCopy(heap, ref) == Append(heap, heap[ref])

\* what a caller reads in a result: the content of the cells and of global_moran
View(heap, result) ==
    [cells |-> [i \in DOMAIN heap[result.cells].items |->
                    heap[heap[result.cells].items[i]].value],
     global_moran |-> heap[result.global_moran].value]

\* output.json as read by json.loads: the cell dicts, the list of them, global_moran
LoadOutput(output) ==
    [i \in 1..Len(output.cells) |-> DictObject(output.cells[i])]
        \o <<ListObject([i \in 1..Len(output.cells) |-> i]),
             DictObject(output.global_moran)>>

AliasOutputs ==
    [cells : UNION {[1..k -> 1..NumOutputs] : k \in 1..2}, global_moran : 1..NumOutputs]

AliasKey == _build_analyze_cache_key(1, 6, "arcpy", InstalledScript, InstalledMtime)

\* run on a miss, the subprocess succeeding (lines 390-443)
RunStoreAlias ==
    /\ call.fn = "run"
    /\ call.pc = "pending"
    /\ LET loaded == LoadOutput(call.output)
           result == [cells |-> Len(loaded) - 1, global_moran |-> Len(loaded)]
           heap == ShallowCopy(ShallowCopy(loaded, result.cells), result.global_moran)
       IN  /\ analyze_cache' =
                _put_cached_analyze(analyze_cache, AliasKey,
                    [cells |-> Len(heap) - 1, global_moran |-> Len(heap)], clock)
           /\ response' =
                [worker |-> HostWorker, cache_key |-> AliasKey, kind |-> "ok",
                 cells |-> result.cells, global_moran |-> result.global_moran,
                 cache_hit |-> FALSE, proc |-> "ok", refresh |-> FALSE]
           /\ call' = [call EXCEPT !.pc = "stored", !.heap = heap]
    /\ UNCHANGED <<clock, worker, client, metricsVars>>

\* run on a hit (lines 368-388)
RunHitAlias ==
    /\ call.fn = "run"
    /\ call.pc = "stored"
    /\ call.hits < MaxHits
    /\ LET collected == _gc_analyze_cache(analyze_cache, clock)
           cached == _get_cached_analyze(collected, AliasKey)
           heap == ShallowCopy(ShallowCopy(call.heap, cached.cells), cached.global_moran)
       IN  /\ cached.kind # "none"
           /\ analyze_cache' = collected
           /\ response' =
                [worker |-> HostWorker, cache_key |-> AliasKey, kind |-> "ok",
                 cells |-> Len(heap) - 1, global_moran |-> Len(heap),
                 cache_hit |-> TRUE, proc |-> "none", refresh |-> FALSE]
           /\ call' = [call EXCEPT !.heap = heap, !.hits = call.hits + 1]
    /\ UNCHANGED <<clock, worker, client, metricsVars>>

\* the caller changes the result it was handed: result["cells"].clear(),
\* result["global_moran"]["i"] = 0, result["cells"][i]["gi_z_score"] = 0; no output
\* holds the value 0
CallerClearsCells ==
    /\ call.pc = "stored"
    /\ call' = [call EXCEPT !.heap[response.cells] = ListObject(<<>>)]
    /\ UNCHANGED <<hostVars, metricsVars>>

CallerSetsGlobalMoran ==
    /\ call.pc = "stored"
    /\ call' = [call EXCEPT !.heap[response.global_moran] = DictObject(0)]
    /\ UNCHANGED <<hostVars, metricsVars>>

CallerSetsCell(i) ==
    /\ call.pc = "stored"
    /\ i \in DOMAIN call.heap[response.cells].items
    /\ call' = [call EXCEPT !.heap[call.heap[response.cells].items[i]] =
                                DictObject(0)]
    /\ UNCHANGED <<hostVars, metricsVars>>

AliasInit ==
    /\ analyze_cache = <<>>
    /\ clock = 0
    /\ worker = [w \in Workers |-> IdleWorker]
    /\ response = NoResponse
    /\ client = IdleClient
    /\ np_random_state = Unseeded
    /\ seed_kw = FALSE
    /\ thread = [t \in Threads |-> IdleThread]
    /\ http = NoHttp
    /\ call \in [fn : {"run"}, pc : {"pending"}, output : AliasOutputs,
                 heap : {<<>>}, hits : {0}]

AliasNext ==
    \/ RunStoreAlias
    \/ RunHitAlias
    \/ CallerClearsCells
    \/ CallerSetsGlobalMoran
    \/ \E i \in 1..2 : CallerSetsCell(i)

SpecAlias == AliasInit /\ [][AliasNext]_vars

(***************************************************************************)
(* Claims about the analyze cache and the bridge.                          *)
(***************************************************************************)
KeyOf(req) ==
    _build_analyze_cache_key(req.rows, req.knn_neighbors, req.arcgis_python_path,
                             InstalledScript, InstalledMtime)

ValidRequests ==
    {req \in AnalyzeRequests : req.rows # 0 /\ req.arcgis_python_path = "arcpy"}

\* C1: a run whose fingerprint has an entry no older than the TTL starts no
\* subprocess and returns the cells and global_moran of that entry, tagged
\* cache_hit; the entry holds what the miss that stored it returned.
C1_HitReturnsStoredResult ==
    [][/\ \A w \in Workers, req \in ValidRequests :
            (LiveEntry(analyze_cache, KeyOf(req), clock) /\ RunLookup(w, req))
            => /\ worker'[w].pc = "idle"
               /\ response'.worker = w
               /\ response'.kind = "ok"
               /\ response'.cache_hit
               /\ \E i \in 1..Len(analyze_cache) :
                    /\ analyze_cache[i].key = KeyOf(req)
                    /\ response'.cells = analyze_cache[i].cells
                    /\ response'.global_moran = analyze_cache[i].global_moran
       /\ \A w \in Workers, out \in Outputs :
            RunSubprocess(w, "ok", out)
            => \E i \in 1..Len(analyze_cache') :
                    /\ analyze_cache'[i].key = worker[w].cache_key
                    /\ analyze_cache'[i].cells = out
                    /\ analyze_cache'[i].global_moran = out
                    /\ response'.cells = out
                    /\ response'.global_moran = out
      ]_vars

\* C1 witness: a hit was returned while the cache also holds another request's entry
C1_Witness ==
    /\ response.kind = "ok"
    /\ response.cache_hit
    /\ Len(analyze_cache) >= 2
    /\ response.cache_key \in CacheKeys(analyze_cache)
    /\ CacheGet(analyze_cache, response.cache_key).created_ts < clock

\* C2 as stated: a run that finds an entry older than the TTL is a miss, starts the
\* subprocess and stores a new entry with a new creation timestamp.
C2_Original ==
    [][/\ \A w \in Workers, req \in ValidRequests :
            (StaleEntry(analyze_cache, KeyOf(req), clock) /\ RunLookup(w, req))
            => worker'[w].pc = "subprocess"
       /\ \A w \in Workers, outcome \in SubprocessOutcomes, out \in Outputs :
            (worker[w].refresh /\ RunSubprocess(w, outcome, out))
            => \E i \in 1..Len(analyze_cache') :
                    /\ analyze_cache'[i].key = worker[w].cache_key
                    /\ analyze_cache'[i].created_ts = clock
      ]_vars

\* C2 amended: a run that finds an entry older than the TTL drops it, is a miss and
\* starts the subprocess; it stores a new entry, stamped with the time of the store,
\* when the subprocess succeeds, and stores nothing when it fails. No hit is served
\* from an entry older than the TTL.
C2_ExpiredEntryIsRefreshed ==
    [][/\ \A w \in Workers, req \in ValidRequests :
            (StaleEntry(analyze_cache, KeyOf(req), clock) /\ RunLookup(w, req))
            => /\ worker'[w].pc = "subprocess"
               /\ worker'[w].cache_key = KeyOf(req)
               /\ KeyOf(req) \notin CacheKeys(analyze_cache')
       /\ \A w \in Workers, req \in ValidRequests :
            (worker'[w].pc = "idle" /\ RunLookup(w, req))
            => LiveEntry(analyze_cache, KeyOf(req), clock)
       /\ \A w \in Workers, outcome \in SubprocessOutcomes, out \in Outputs :
            (worker[w].refresh /\ RunSubprocess(w, outcome, out))
            => IF outcome = "ok"
               THEN \E i \in 1..Len(analyze_cache') :
                        /\ analyze_cache'[i].key = worker[w].cache_key
                        /\ analyze_cache'[i].created_ts = clock
                        /\ analyze_cache'[i].cells = out
               ELSE analyze_cache' = analyze_cache
      ]_vars

\* C2 witness: a run that found an expired entry has stored its replacement
C2_Witness ==
    /\ response.refresh
    /\ response.kind = "ok"
    /\ response.cache_key \in CacheKeys(analyze_cache)
    /\ CacheGet(analyze_cache, response.cache_key).created_ts = clock
    /\ clock > analyze_cache_ttl_sec

\* C3: of two concurrent runs with the same fingerprint that both start with no live
\* entry, at most one is in the subprocess (the lookup, the call, the store and the
\* eviction of a run are one critical section).
C3_OneBackendCallPerFingerprint ==
    \A w1, w2 \in Workers :
        (w1 # w2 /\ worker[w1].pc = "subprocess" /\ worker[w2].pc = "subprocess")
        => worker[w1].cache_key # worker[w2].cache_key

\* C4: every backend failure is an error for the caller: the client has a result only
\* when the bridge is enabled, has a token, was reached in time and answered 200 with
\* ok = true; run() has a fresh result only when the subprocess ended well.
C4_FailuresSurface ==
    /\ client.result.kind \in {"none", "ok", "ArcGISBridgeError"}
    /\ client.result.kind = "ok"
        => /\ client.enabled
           /\ client.token # ""
           /\ client.transport = "delivered"
           /\ client.status = 200
           /\ client.body = "ok_true"
    /\ (\/ ~client.enabled
        \/ client.token = ""
        \/ client.transport \in {"timeout", "unreachable"}
        \/ client.transport = "delivered" /\ client.status # 200
        \/ client.transport = "delivered" /\ client.body # "ok_true")
        => client.result.kind = "ArcGISBridgeError"
    /\ response.proc = "timeout" => response.kind = "ArcGISRunnerTimeout"
    /\ response.proc \in {"nonzero_exit", "output_missing", "not_ok"}
        => response.kind = "ArcGISRunnerError"
    /\ (response.kind = "ok" /\ ~response.cache_hit) => response.proc = "ok"

\* C4 witness: a subprocess timeout reached the caller as HTTP 504 and was raised
C4_Witness ==
    /\ response.proc = "timeout"
    /\ client.pc = "idle"
    /\ client.transport = "delivered"
    /\ client.status = 504
    /\ client.result.kind = "ArcGISBridgeError"
(***************************************************************************)
(* Claims about analyze_h3_grid and the statistics.                        *)
(***************************************************************************)

\* C5: a request for the delegated (ArcGIS) path whose backend cannot run (a python
\* path that does not exist) ends in a RuntimeError, HTTP 502 from the handler, and
\* never in a result computed locally.
C5_DelegatedFailureRaises ==
    (/\ http.kind # "none"
     /\ http.req.use_arcgis
     /\ http.req.arcgis_python_path = "not_exists")
    => /\ http.kind = "RuntimeError"
       /\ http.source = "none"
       /\ http.req.entry = "http" => http.status = 502

\* C6: the permutation draws of a finished seeded run are those of a run of the same
\* seed that has the process to itself, whatever the other thread does meanwhile.
C6_SeededRunsAreReproducible ==
    http.kind = "ok"
    => http.draws =
        IF seed_kw
        THEN <<[seed |-> http.req.moran_seed, pos |-> 0],
               [seed |-> http.req.moran_seed, pos |-> 0],
               [seed |-> http.req.moran_seed, pos |-> 0]>>
        ELSE <<[seed |-> http.req.moran_seed, pos |-> 0],
               [seed |-> http.req.moran_seed, pos |-> 0],
               [seed |-> http.req.moran_seed, pos |-> 1]>>

\* C7: with FDR correction on, every cell marked LISA-significant or Gi*-significant
\* has a p-value below alpha, that is, it is also marked by the raw threshold.
C7_FdrSubsetOfRaw ==
    (/\ call.fn = "compute_local_spatial_significance"
     /\ call.pc = "done"
     /\ call.use_fdr)
    => \A cid \in DOMAIN call.values :
        /\ call.result.cells[cid].lisa_significant
            => /\ call.result.cells[cid].lisa_p_value # None
               /\ call.result.cells[cid].lisa_p_value < call.alpha
        /\ call.result.cells[cid].gi_star_significant
            => /\ call.result.cells[cid].gi_star_p_value # None
               /\ call.result.cells[cid].gi_star_p_value < call.alpha

\* C8: when all cells have the same value, the global Moran's I is None and no cell
\* is significant: every flag false, lisa_cluster NS, gi_hotspot_type ns, counts 0.
C8_ZeroVarianceIsUndefined ==
    (/\ call.pc = "done"
     /\ call.fn \in {"compute_global_moran_i", "compute_global_moran_significance",
                     "compute_local_spatial_significance"}
     /\ \A a, b \in DOMAIN call.values : call.values[a] = call.values[b])
    => CASE call.fn = "compute_global_moran_i" -> ~call.result.defined
         [] call.fn = "compute_global_moran_significance" ->
                /\ ~call.result.i.defined
                /\ ~call.result.significant
         [] OTHER ->
                /\ \A cid \in DOMAIN call.values :
                    /\ ~call.result.cells[cid].lisa_significant
                    /\ ~call.result.cells[cid].gi_star_significant
                    /\ ~call.result.cells[cid].is_significant
                    /\ call.result.cells[cid].lisa_cluster = "NS"
                    /\ call.result.cells[cid].gi_hotspot_type = "ns"
                /\ call.result.counts.significant_cell_count = 0
                /\ call.result.counts.hotspot_cell_count = 0
                /\ call.result.counts.coldspot_cell_count = 0

\* C9: compute_global_moran_i returns I = (n / S0) * (num / den), to the six decimals
\* it reports, with the mean over all cells and the sums over the ordered adjacent
\* pairs; it returns None when n < 2, den <= 0 or S0 <= 0; two mutually adjacent
\* cells with the values 2 and 4 give -1.0.
C9_MoranFormula ==
    (call.fn = "compute_global_moran_i" /\ call.pc = "done")
    => LET ids == DOMAIN call.values
           n == Cardinality(ids)
           total == SumOver(call.values, ids)
           dev == [cid \in ids |-> n * call.values[cid] - total]
           pairs == {p \in ids \X ids :
                        p[1] # p[2] /\ Abs(p[1] - p[2]) <= 2 * call.neighbor_ring}
           s0 == Cardinality(pairs)
           num == SumOver([p \in pairs |-> dev[p[1]] * dev[p[2]]], pairs)
           den == SumOver([cid \in ids |-> dev[cid] * dev[cid]], ids)
           t == Decimals(Abs(n * num) \div (s0 * den), Abs(n * num) % (s0 * den),
                         s0 * den, 6)
       IN IF n < 2 \/ den <= 0 \/ s0 <= 0
          THEN call.result = Undefined
          ELSE /\ call.result.defined
               /\ call.result.micro # 0 => (call.result.micro < 0) = (num < 0)
               /\ 2 * t.r < s0 * den => Abs(call.result.micro) = t.q
               /\ 2 * t.r > s0 * den => Abs(call.result.micro) = t.q + 1
               /\ 2 * t.r = s0 * den => Abs(call.result.micro) \in {t.q, t.q + 1}
               /\ (\E a, b \in ids :
                        /\ ids = {a, b}
                        /\ call.values[a] = 2
                        /\ call.values[b] = 4)
                    => call.result.micro = 0 - 1000000

\* C10: the per-cell point counts add up to the assigned count, the summary's
\* poi_count, which is at most the number of observations and equal to it exactly
\* when every observation resolves to a cell of the working set; an observation that
\* does not is dropped and changes no cell.
C10_CountsAddUp ==
    /\ (call.fn = "aggregate_pois_to_h3" /\ call.pc = "done")
        => LET resolved == {i \in 1..Len(call.pois) :
                                /\ call.pois[i].location = "ok"
                                /\ call.pois[i].cell \in call.grid_ids}
           IN /\ SumOver(call.result.stats_by_cell, call.grid_ids)
                    = call.result.assigned_poi_count
              /\ call.result.assigned_poi_count <= Len(call.pois)
              /\ (call.result.assigned_poi_count = Len(call.pois))
                    <=> (resolved = 1..Len(call.pois))
              /\ \A cid \in call.grid_ids :
                    call.result.stats_by_cell[cid]
                        = Cardinality({i \in resolved : call.pois[i].cell = cid})
    /\ (call.fn = "analyze_h3_grid" /\ call.pc = "done")
        => LET resolved == {i \in 1..Len(call.pois) :
                                /\ call.pois[i].location = "ok"
                                /\ call.pois[i].cell \in call.grid_ids}
           IN /\ SumOver([cid \in call.grid_ids |-> call.result.cells[cid].poi_count],
                         call.grid_ids)
                    = call.result.summary.poi_count
              /\ call.result.summary.poi_count <= Len(call.pois)
              /\ (call.result.summary.poi_count = Len(call.pois))
                    <=> (resolved = 1..Len(call.pois))
              /\ \A cid \in call.grid_ids :
                    call.result.cells[cid].poi_count
                        = Cardinality({i \in resolved : call.pois[i].cell = cid})

\* C10 witness: analyze_h3_grid kept one of two observations and dropped the other
C10_Witness ==
    /\ call.fn = "analyze_h3_grid"
    /\ call.pc = "done"
    /\ Len(call.pois) = 2
    /\ call.result.summary.poi_count = 1
    /\ \E cid \in call.grid_ids : call.result.cells[cid].poi_count = 1
    /\ \E i \in 1..2 : call.pois[i].location = "ok" /\ call.pois[i].cell \notin call.grid_ids
(***************************************************************************)
(* Claims about the grid, the neighbour graph and the labels.              *)
(***************************************************************************)

C12_NoSelfNeighbor ==
    (call.fn = "_build_pysal_weights" /\ call.pc = "done")
    => \A cid \in call.cell_ids : cid \notin call.result.neighbors_map[cid]

\* C12 witness: a cell of a working set of three cells has neighbours, with ring 3
C12_Witness ==
    /\ call.fn = "_build_pysal_weights"
    /\ call.pc = "done"
    /\ call.neighbor_ring = 3
    /\ Cardinality(call.cell_ids) >= 3
    /\ \E cid \in call.cell_ids : Cardinality(call.result.neighbors_map[cid]) >= 2

\* C13: the neighbour graph of a working set is symmetric, and every member of a
\* neighbour set is a cell of the working set.
C13_SymmetricAndClosed ==
    (call.fn = "_build_pysal_weights" /\ call.pc = "done")
    => /\ \A a, b \in call.cell_ids :
            (b \in call.result.neighbors_map[a]) <=> (a \in call.result.neighbors_map[b])
       /\ \A a \in call.cell_ids : call.result.neighbors_map[a] \subseteq call.cell_ids

\* C13 witness: a cell has a neighbour in the working set while a cell next to it on
\* the grid is outside the working set
C13_Witness ==
    /\ call.fn = "_build_pysal_weights"
    /\ call.pc = "done"
    /\ \E a \in call.cell_ids :
        /\ call.result.neighbors_map[a] # {}
        /\ \E b \in CellIds \ call.cell_ids : Abs(a - b) = 1

\* C14: a cell whose category histogram has at most one nonzero bucket has
\* local_entropy 0, whatever the count in that bucket.
C14_SingleCategoryEntropyZero ==
    (/\ call.fn = "_shannon_entropy"
     /\ call.pc = "done"
     /\ Cardinality({k \in CategoryKeys : call.category_counts[k] # 0}) <= 1)
    => call.local_entropy = 0

\* C14 witness: the one occupied bucket holds more than one observation
C14_Witness ==
    /\ call.fn = "_shannon_entropy"
    /\ call.pc = "done"
    /\ call.category_counts["dining"] = 2
    /\ \A k \in CategoryKeys \ {"dining"} : call.category_counts[k] = 0
    /\ call.local_entropy = 0

\* C15: the density histogram has the same bins for every input, an empty grid
\* included: the edges 0, 1, 2, 5, 10, 20, 50, 100, 200 and a last bin '>=200';
\* only the counts differ, one for each bin.
C15_FixedHistogramBins ==
    (call.fn = "build_chart_payload" /\ call.pc = "done")
    => /\ call.result.bins
            = <<"0-1", "1-2", "2-5", "5-10", "10-20", "20-50", "50-100", "100-200",
                ">=200">>
       /\ DOMAIN call.result.counts = DOMAIN call.result.bins
       /\ \A b \in DOMAIN call.result.counts : call.result.counts[b] >= 0

\* C15 witness: a density of the last bin and one of the first were counted
C15_Witness ==
    /\ call.fn = "build_chart_payload"
    /\ call.pc = "done"
    /\ Len(call.density_values) >= 2
    /\ call.result.counts[9] = 1
    /\ call.result.counts[1] >= 1

\* C16: the table never holds more than analyze_cache_max_entries entries, and after
\* a run that looked up or stored an entry it holds no entry older than the TTL at
\* the time of that run's collection.
C16_CacheWithinBounds ==
    /\ [](Len(analyze_cache) <= analyze_cache_max_entries)
    /\ [][(response' # response /\ response'.kind = "ok")
            => \A i \in 1..Len(analyze_cache') :
                    analyze_cache'[i].created_ts >= clock - analyze_cache_ttl_sec]_vars

\* C16 witness: with no entry expired, a run stored the fifth fingerprint and the
\* table holds four entries
C16_Witness ==
    /\ clock = 0
    /\ Len(analyze_cache) = analyze_cache_max_entries
    /\ response.kind = "ok"
    /\ ~response.cache_hit
    /\ response.cache_key = analyze_cache[Len(analyze_cache)].key
    /\ response.cache_key[1] = analyze_cache_max_entries + 1
    /\ analyze_cache[1].key[1] = 2

\* C17: a response that is not 2xx, or whose body is not a JSON object with the
\* per-cell result list and the global result, makes run_arcgis_h3_analysis raise
\* ArcGISBridgeError; no result is built from it.
C17_MalformedReplyRaises ==
    (/\ client.pc = "idle"
     /\ client.transport = "delivered"
     /\ \/ client.status \notin 200..299
        \/ client.body # "ok_true")
    => client.result.kind = "ArcGISBridgeError"

\* C18: every delegated call ends: a caller of run_arcgis_h3_analysis that posted its
\* request gets a whole result or an ArcGISBridgeError, and a run of ArcGISRunner.run
\* that started the subprocess returns or raises, by the timeout at the latest; a
\* subprocess that timed out is ArcGISRunnerTimeout, answered with HTTP 504, which the
\* caller that still waits receives as ArcGISBridgeError.
C18_CallsTerminate ==
    /\ (client.pc # "idle")
            ~> (client.pc = "idle" /\ client.result.kind \in {"ok", "ArcGISBridgeError"})
    /\ (worker[HostWorker].pc = "subprocess")
            ~> (worker[HostWorker].pc = "idle" /\ response.kind # "none")
    /\ [][(/\ worker[HostWorker].pc = "subprocess"
           /\ worker'[HostWorker].pc = "idle"
           /\ response'.proc = "timeout")
            => /\ response'.kind = "ArcGISRunnerTimeout"
               /\ (client.pc = "waiting" /\ client.worker = HostWorker)
                    => /\ client'.pc = "idle"
                       /\ client'.status = 504
                       /\ client'.result = BridgeError]_vars

\* C18 witness: the caller's timeout ended its call while the run it started is
\* still in the subprocess
C18_Witness ==
    /\ client.pc = "idle"
    /\ client.transport = "timeout"
    /\ client.result.kind = "ArcGISBridgeError"
    /\ worker[HostWorker].pc = "subprocess"

\* C19: a cell is a hotspot exactly when it is Gi*-significant with a z-score above 0,
\* a coldspot exactly when it is Gi*-significant with a z-score below 0, and ns in
\* every other case (not significant, z-score 0 or None); hotspot_cell_count and
\* coldspot_cell_count are the numbers of cells with these labels.
C19_HotspotLabels ==
    (/\ call.fn = "compute_local_spatial_significance"
     /\ call.pc = "done")
    => LET cells == call.result.cells
           counts == call.result.counts
       IN /\ \A cid \in DOMAIN cells :
                /\ cells[cid].gi_hotspot_type \in {"hotspot", "coldspot", "ns"}
                /\ cells[cid].gi_hotspot_type = "hotspot"
                    <=> /\ cells[cid].gi_star_significant
                        /\ cells[cid].gi_star_z_score = "positive"
                /\ cells[cid].gi_hotspot_type = "coldspot"
                    <=> /\ cells[cid].gi_star_significant
                        /\ cells[cid].gi_star_z_score = "negative"
                /\ cells[cid].gi_hotspot_type = "ns"
                    <=> \/ ~cells[cid].gi_star_significant
                        \/ cells[cid].gi_star_z_score \in {"zero", "None"}
          /\ counts.hotspot_cell_count =
                Cardinality({cid \in DOMAIN cells :
                                cells[cid].gi_hotspot_type = "hotspot"})
          /\ counts.coldspot_cell_count =
                Cardinality({cid \in DOMAIN cells :
                                cells[cid].gi_hotspot_type = "coldspot"})

\* C19 witness: one cell is a hotspot, another is Gi*-significant with a z-score that
\* is reported as 0 and is ns
C19_Witness ==
    /\ call.fn = "compute_local_spatial_significance"
    /\ call.pc = "done"
    /\ \E a, b \in DOMAIN call.result.cells :
        /\ call.result.cells[a].gi_hotspot_type = "hotspot"
        /\ call.result.cells[b].gi_star_significant
        /\ call.result.cells[b].gi_star_z_score = "zero"
        /\ call.result.cells[b].gi_hotspot_type = "ns"
        /\ call.result.counts.hotspot_cell_count = 1

\* the p-values that the Benjamini-Hochberg correction retains: those up to a p-value
\* that is at most alpha * (number of p-values up to it) / (number of p-values)
C20_FdrRetained(cells, cid, alpha) ==
    LET valid == {j \in DOMAIN cells : cells[j].lisa_p_value # None}
    IN \E k \in valid :
        /\ cells[k].lisa_p_value * Cardinality(valid)
            <= alpha * Cardinality({j \in valid :
                                        cells[j].lisa_p_value <= cells[k].lisa_p_value})
        /\ cells[cid].lisa_p_value <= cells[k].lisa_p_value

\* C20: lisa_cluster is one of HH, LH, LL, HL, NS; it differs from NS only for a cell
\* that is LISA-significant, with a p-value below alpha or retained by the FDR
\* correction when that is on; a cell that is not significant or has no p-value is NS.
C20_ClusterOnlyWhenSignificant ==
    (/\ call.fn = "compute_local_spatial_significance"
     /\ call.pc = "done")
    => LET cells == call.result.cells
       IN \A cid \in DOMAIN cells :
            /\ cells[cid].lisa_cluster \in {"HH", "LH", "LL", "HL", "NS"}
            /\ cells[cid].lisa_cluster # "NS"
                => /\ cells[cid].lisa_significant
                   /\ cells[cid].lisa_p_value # None
                   /\ \/ cells[cid].lisa_p_value < call.alpha
                      \/ call.use_fdr /\ C20_FdrRetained(cells, cid, call.alpha)
            /\ (~cells[cid].lisa_significant \/ cells[cid].lisa_p_value = None)
                => cells[cid].lisa_cluster = "NS"

\* C20 witness: one cell is significant and in the cluster LH, another has a p-value,
\* is not significant and is NS
C20_Witness ==
    /\ call.fn = "compute_local_spatial_significance"
    /\ call.pc = "done"
    /\ \E a, b \in DOMAIN call.result.cells :
        /\ call.result.cells[a].lisa_significant
        /\ call.result.cells[a].lisa_cluster = "LH"
        /\ call.result.cells[b].lisa_p_value # None
        /\ ~call.result.cells[b].lisa_significant
        /\ call.result.cells[b].lisa_cluster = "NS"

\* C21: a boundary with no points, with fewer than 3 distinct points, with malformed
\* points only, or whose ring repairs to an empty polygon gives an empty
\* FeatureCollection with count 0, and analyze_h3_grid gives the neutral result
\* (grid_count 0, poi_count 0, global statistics undefined, counts 0) whatever the
\* pois and the library are.
C21_DegenerateBoundaryIsEmptyGrid ==
    (/\ call.fn = "analyze_h3_grid"
     /\ call.pc = "done"
     /\ "polygon" \in DOMAIN call
     /\ \/ Cardinality({call.polygon[k] : k \in 1..Len(call.polygon)} \ {0}) < 3
        \/ call.shape = {})
    => /\ call.result.grid = [features |-> {}, count |-> 0]
       /\ call.result.analysis.grid_count = 0
       /\ DOMAIN call.result.analysis.cells = {}
       /\ call.result.analysis.summary.poi_count = 0
       /\ ~call.result.analysis.summary.global_moran.i.defined
       /\ call.result.analysis.summary.global_moran.p_value = None
       /\ ~call.result.analysis.summary.global_moran.significant
       /\ call.result.analysis.summary.counts.significant_cell_count = 0
       /\ call.result.analysis.summary.counts.hotspot_cell_count = 0
       /\ call.result.analysis.summary.counts.coldspot_cell_count = 0

\* C21 witness: a ring of four points over two places, closed to five, with a poi that has a cell,
\* gave the empty grid although shapely was asked for a region with area
C21_Witness ==
    /\ call.fn = "analyze_h3_grid"
    /\ call.pc = "done"
    /\ "polygon" \in DOMAIN call
    /\ Len(call.polygon) = 4
    /\ Cardinality({call.polygon[k] : k \in 1..Len(call.polygon)}) = 2
    /\ 0 \notin {call.polygon[k] : k \in 1..Len(call.polygon)}
    /\ call.polygon[1] # call.polygon[4]
    /\ call.shape = Units
    /\ Len(call.pois) = 1
    /\ call.pois[1].cell = 1
    /\ call.result.grid.count = 0

\* C22: in 'intersects' mode, for one boundary and two minimum overlap ratios
\* r1 <= r2 in [0, 1], the cells returned with r2 are among those returned with r1
\* and their count is not above.
C22_HigherRatioNeverAddsCells ==
    (/\ call.fn = "build_h3_grid_feature_collection"
     /\ call.pc = "done"
     /\ "low_ratio" \in DOMAIN call)
    => /\ {f.h3_id : f \in call.high_result.features}
            \subseteq {f.h3_id : f \in call.low_result.features}
       /\ call.high_result.count <= call.low_result.count

\* C22 witness: the higher ratio dropped a cell and kept another
C22_Witness ==
    /\ call.fn = "build_h3_grid_feature_collection"
    /\ call.pc = "done"
    /\ "low_ratio" \in DOMAIN call
    /\ call.low_ratio < call.high_ratio
    /\ call.high_result.count > 0
    /\ call.high_result.count < call.low_result.count

\* C23: the per-cell records of analyze_h3_grid carry gi_star_z_score and carry no
\* lisa_p_value, gi_star_p_value or lisa_cluster, and the summary carries no
\* significant_cell_count, no global p-value and no global significance.
C23_NoSignificanceFields ==
    (/\ call.fn = "analyze_h3_grid"
     /\ call.pc = "done"
     /\ "grid_ids" \in DOMAIN call)
    => /\ \A cid \in DOMAIN call.result.cells :
            /\ "gi_star_z_score" \in DOMAIN call.result.cells[cid].local
            /\ DOMAIN call.result.cells[cid].local
                \cap {"lisa_p_value", "gi_star_p_value", "lisa_cluster"} = {}
       /\ "significant_cell_count" \notin DOMAIN call.result.summary.counts
       /\ DOMAIN call.result.summary.global_moran \cap {"p_value", "significant"} = {}

\* C24: the grid has one feature for each of its cells, and every feature carries the
\* overlap ratio of its cell against the boundary, intersection area by cell area, in
\* both include modes; in 'intersects' mode the ratio is at least the minimum asked.
C24_CellsCarryOverlapRatio ==
    (/\ call.fn = "build_h3_grid_feature_collection"
     /\ call.pc = "done"
     /\ "min_overlap_ratio" \in DOMAIN call)
    => /\ Cardinality({f.h3_id : f \in call.result.features}) = call.result.count
       /\ \A f \in call.result.features :
            /\ f.overlap_ratio = OverlapRatio(call.region, f.h3_id)
            /\ call.include_mode = "intersects"
                => f.overlap_ratio >= ClampRatio(call.min_overlap_ratio)

\* the largest rank r of the defined p-values, sorted ascending, with
\* p(r) <= alpha * r / m, or 0 when no rank qualifies
C25_StepUpRank(p_values, alpha) ==
    LET valid == {i \in 1..Len(p_values) : p_values[i] # None}
        m == Cardinality(valid)
        UpTo(i) == Cardinality({j \in valid : p_values[j] <= p_values[i]})
        qualifying == {UpTo(i) : i \in {k \in valid : p_values[k] * m <= alpha * UpTo(k)}}
    IN IF qualifying = {} THEN 0 ELSE CHOOSE r \in qualifying : \A o \in qualifying : o <= r

\* C25: _build_fdr_mask marks exactly the cells whose p-value has a rank up to the
\* largest rank r with p(r) <= alpha * r / m, m the number of defined p-values, and
\* no cell when no rank qualifies or no p-value is defined.
C25_BenjaminiHochberg ==
    (/\ call.fn = "_build_fdr_mask"
     /\ call.pc = "done")
    => /\ Len(call.result) = Len(call.p_values)
       /\ \A idx \in 1..Len(call.p_values) :
            call.result[idx]
                <=> /\ call.p_values[idx] # None
                    /\ Cardinality({j \in 1..Len(call.p_values) :
                                        /\ call.p_values[j] # None
                                        /\ call.p_values[j] < call.p_values[idx]})
                            < C25_StepUpRank(call.p_values, call.alpha)

\* C26: the global Moran's I in the summary of analyze_h3_grid is what
\* compute_global_moran_i returns for the densities of the same cells and ring size,
\* (n / S0) * (num / den) with S0 the number of neighbour relations, also when the
\* cells have different numbers of neighbours.
C26_SummaryMoranIsBinaryWeights ==
    (/\ call.fn = "analyze_h3_grid"
     /\ call.pc = "done"
     /\ "grid_ids" \in DOMAIN call)
    => call.result.summary.global_moran.i =
            compute_global_moran_i(
                [cid \in call.grid_ids |-> call.result.cells[cid].density_poi_per_km2],
                1, call.mean_error)

\* C27: when a store leaves more than analyze_cache_max_entries entries that are not
\* expired, exactly the surplus is evicted, no evicted entry was created after an
\* entry that is kept, and the entry just stored is kept; otherwise no entry that is
\* not expired is evicted.
C27_OldestEvictedFirst ==
    [][(/\ worker[HostWorker].pc = "subprocess"
        /\ worker'[HostWorker].pc = "idle"
        /\ response'.kind = "ok")
        => LET key == response'.cache_key
               live == {i \in 1..Len(analyze_cache) :
                            /\ analyze_cache[i].key # key
                            /\ analyze_cache[i].created_ts
                                    >= clock - analyze_cache_ttl_sec}
               evicted == {i \in live :
                            \A k \in 1..Len(analyze_cache') :
                                analyze_cache'[k].key # analyze_cache[i].key}
               surplus == Cardinality(live) + 1 - analyze_cache_max_entries
           IN /\ Cardinality(evicted) = IF surplus > 0 THEN surplus ELSE 0
              /\ \A i \in evicted, k \in 1..Len(analyze_cache') :
                    analyze_cache[i].created_ts <= analyze_cache'[k].created_ts
              /\ \E k \in 1..Len(analyze_cache') :
                    /\ analyze_cache'[k].key = key
                    /\ analyze_cache'[k].created_ts = clock]_vars

\* C27 witness: at time 1 a run stored the first fingerprint into a full table; the
\* table holds the entries of the fingerprints 3, 4, 5 and 1, the oldest from time 0
C27_Witness ==
    /\ clock = 1
    /\ Len(analyze_cache) = analyze_cache_max_entries
    /\ response.kind = "ok"
    /\ ~response.cache_hit
    /\ response.cache_key[1] = 1
    /\ analyze_cache[Len(analyze_cache)].key = response.cache_key
    /\ analyze_cache[Len(analyze_cache)].created_ts = 1
    /\ analyze_cache[1].created_ts = 0
    /\ \A i \in 1..Len(analyze_cache) : analyze_cache[i].key[1] # 2


(***************************************************************************)
(* C28: a request is served from the cache exactly when the entry was      *)
(* stored for equal rows, an equal knn_neighbors, the same python path,    *)
(* the same script path and the same modification time of the script;      *)
(* export_image, timeout_sec and run_id play no part.                      *)
(***************************************************************************)
C28_SameFingerprintInputs ==
    /\ call.asked.rows = call.stored.rows
    /\ call.asked.knn_neighbors = call.stored.knn_neighbors
    /\ call.asked.arcgis_python_path = call.stored.arcgis_python_path
    /\ call.asked_script.path = call.stored_script.path
    /\ call.asked_script.st_mtime = call.stored_script.st_mtime

C28_ServedOnlyForSameFingerprint ==
    (call.fn = "run" /\ call.pc = "done")
        => (response.cache_hit <=> C28_SameFingerprintInputs)

(***************************************************************************)
(* C29: whatever the callers do to the results they were handed, the       *)
(* stored entry keeps the cells and the global result of the run that      *)
(* stored it, and every hit returns them.                                  *)
(***************************************************************************)
C29_HitsReturnStoredResult ==
    [][(call.fn = "run" /\ call.pc = "stored" /\ call'.hits > call.hits)
        => View(call'.heap, response') = call.output]_vars

(***************************************************************************)
(* C30: a run that ends in a failure of the backend (timeout, non-zero     *)
(* exit, missing output file, output that is not ok) raises, stores        *)
(* nothing and leaves every entry as it was; what a hit returns was stored *)
(* by a successful run, so after the failure a request with the same       *)
(* inputs is a miss unless a successful run has stored its result.         *)
(***************************************************************************)
C30_FailedRun(w) ==
    /\ worker[w].pc = "subprocess"
    /\ worker'[w].pc = "idle"
    /\ response'.proc \in SubprocessOutcomes \ {"ok"}

C30_FailedRunStoresNothing ==
    [][/\ \A w \in Workers :
            C30_FailedRun(w) =>
                /\ response'.kind \in {"ArcGISRunnerError", "ArcGISRunnerTimeout"}
                /\ analyze_cache' = analyze_cache
                /\ ~LiveEntry(analyze_cache, worker[w].cache_key, clock)
                        => ~LiveEntry(analyze_cache', worker[w].cache_key, clock')
       /\ response'.cache_hit => response'.cells \in Outputs]_vars

\* after a failed run the same worker is asked again for the same fingerprint
\* and, the cache holding other entries, is at the subprocess again
C30_Witness ==
    \E w \in Workers :
        /\ response.worker = w
        /\ response.proc \in SubprocessOutcomes \ {"ok"}
        /\ worker[w].pc = "subprocess"
        /\ worker[w].cache_key = response.cache_key
        /\ Len(analyze_cache) > 0
====
